---- MODULE Spec2Model ----
(***************************************************************************)
(* Key4ce typing trainer: the typing engine of src/key4ce/core/engine.py   *)
(* (TypingState, TypingEngine.process_key and its handlers) as a state     *)
(* machine, with the accuracy view of src/key4ce/core/recorder.py.         *)
(*                                                                         *)
(* Strings are sequences of one-character strings; Python indices are      *)
(* 0-based, so text[i] of the source is text[i + 1] here.  time.time() is  *)
(* an integer clock that never runs backwards; one unit is one second.     *)
(***************************************************************************)
EXTENDS Integers, Sequences, FiniteSets, TLC

\* ---------------------------------------------------------------- bounds
\* Longest target text handed to TypingEngine(text).
MaxLen == 2

\* Number of process_key calls explored per engine.
MaxKeys == 5

\* ------------------------------------------------------ inputs and values
\* Characters of the target texts and of the typed keys.
Chars == {"a", " "}

\* The key process_key treats as backspace ("\b" is handled identically).
BACKSPACE == "backspace"

Keys == Chars \cup {BACKSPACE}

\* Seconds the clock may advance between two time.time() reads.
Ticks == {0, 1}

\* start_time / last_keystroke_time before the first key.
None == -1

\* The target texts: every non-empty text of at most MaxLen characters (the
\* content generators never hand the engine an empty text).
Texts == UNION {[1..k -> Chars] : k \in 1..MaxLen}

\* KeystrokeResult
CORRECT == "correct"
INCORRECT == "incorrect"
BACKSPACE_RESULT == "backspace_result"
WORD_COMPLETE == "word_complete"
TEXT_COMPLETE == "text_complete"

\* self._combo_milestones
ComboMilestones == {10, 25, 50, 100, 200}

VARIABLES
    text,                       \* TypingState.text
    position,                   \* TypingState.position
    errors,                     \* TypingState.errors
    correct,                    \* TypingState.correct
    start_time,                 \* TypingState.start_time
    last_keystroke_time,        \* TypingState.last_keystroke_time
    combo,                      \* TypingState.combo
    max_combo,                  \* TypingState.max_combo
    keystrokes,                 \* TypingState.keystrokes (the timeline)
    error_positions,            \* TypingState.error_positions
    achieved_combo_milestones,  \* TypingEngine._achieved_combo_milestones
    keystroke_events,           \* keystrokes handed to on_keystroke
    combo_breaks,               \* arguments of the on_combo_break calls
    milestone_events,           \* arguments of the on_milestone calls
    now,                        \* last value read from time.time()
    key,                        \* argument of the last process_key call
    result,                     \* value returned by the last process_key call
    calls                       \* number of process_key calls so far

vars == <<text, position, errors, correct, start_time, last_keystroke_time,
          combo, max_combo, keystrokes, error_positions,
          achieved_combo_milestones, keystroke_events, combo_breaks,
          milestone_events, now, key, result, calls>>

\* ------------------------------------------------------------ TypingState
\* TypingState.current_char: None is the empty string here, as in
\* `expected or ""`.
current_char == IF position < Len(text) THEN text[position + 1] ELSE ""

\* Fault variant of is_complete: the comparison is strict.
IsCompleteAtStrict(p) == p > Len(text)

\* TypingState.is_complete, at a given position.
IsCompleteAt(p) == p >= Len(text)

is_complete == IsCompleteAt(position)

\* TypingEngine.is_started
is_started == start_time # None

\* A percentage or a rate as an exact fraction <<numerator, denominator>>.
SameValue(x, y) == x[1] * y[2] = y[1] * x[2]

\* TypingState.accuracy
accuracy ==
    LET total == correct + errors
    IN IF total = 0 THEN <<100, 1>> ELSE <<correct * 100, total>>

\* TypingState.wpm read at clock value t: (correct / 5) / (elapsed / 60),
\* and 0 while less than a tenth of a second has elapsed.
wpm(st, t) ==
    LET elapsed == IF st = None THEN 0 ELSE t - st
    IN IF elapsed = 0 THEN <<0, 1>> ELSE <<correct * 12, elapsed>>

\* ------------------------------------------------------- KeystrokeTimeline
RECURSIVE CountCorrect(_)
CountCorrect(ks) ==
    IF ks = <<>> THEN 0
    ELSE (IF ks[1].is_correct THEN 1 ELSE 0) + CountCorrect(Tail(ks))

\* KeystrokeTimeline.accuracy over a list of keystrokes.
TimelineAccuracy(ks) ==
    LET total == Len(ks)
    IN IF total = 0 THEN <<100, 1>> ELSE <<CountCorrect(ks) * 100, total>>

\* ----------------------------------------------------------- TypingEngine
\* Fault variant of the Keystroke record: the timestamp is taken relative to
\* the start of the session instead of from the clock.
NewKeystrokeRelative(char, t, st) ==
    [char |-> char,
     expected |-> current_char,
     timestamp |-> t - st,
     is_correct |-> (char = current_char),
     position |-> position,
     wpm_at_time |-> wpm(st, t)]

\* The Keystroke built by process_key for `char` at clock value t, the
\* start time being st.
NewKeystroke(char, t, st) ==
    [char |-> char,
     expected |-> current_char,
     timestamp |-> t,
     is_correct |-> (char = current_char),
     position |-> position,
     wpm_at_time |-> wpm(st, t)]

\* The milestones _check_combo_milestone newly reaches at combo value c.
NewMilestones(c) ==
    {m \in ComboMilestones : c >= m /\ m \notin achieved_combo_milestones}

RECURSIVE MilestoneCalls(_)
MilestoneCalls(ms) ==
    IF ms = {} THEN <<>>
    ELSE LET m == CHOOSE x \in ms : \A y \in ms : x <= y
         IN <<(<<"combo", m>>)>> \o MilestoneCalls(ms \ {m})

\* Fault variant of _handle_correct: max_combo is not tracked.
HandleCorrectNoMax(keystroke) ==
    /\ position' = position + 1
    /\ correct' = correct + 1
    /\ combo' = combo + 1
    /\ achieved_combo_milestones' =
           achieved_combo_milestones \cup NewMilestones(combo + 1)
    /\ milestone_events' =
           milestone_events \o MilestoneCalls(NewMilestones(combo + 1))
    /\ result' = IF IsCompleteAt(position + 1) THEN TEXT_COMPLETE
                 ELSE IF keystroke.char = " " THEN WORD_COMPLETE
                 ELSE CORRECT
    /\ UNCHANGED <<errors, error_positions, combo_breaks, max_combo>>

\* TypingEngine._handle_correct
HandleCorrect(keystroke) ==
    /\ position' = position + 1
    /\ correct' = correct + 1
    /\ combo' = combo + 1
    /\ max_combo' = IF combo + 1 > max_combo THEN combo + 1 ELSE max_combo
    /\ achieved_combo_milestones' =
           achieved_combo_milestones \cup NewMilestones(combo + 1)
    /\ milestone_events' =
           milestone_events \o MilestoneCalls(NewMilestones(combo + 1))
    /\ result' = IF IsCompleteAt(position + 1) THEN TEXT_COMPLETE
                 ELSE IF keystroke.char = " " THEN WORD_COMPLETE
                 ELSE CORRECT
    /\ UNCHANGED <<errors, error_positions, combo_breaks>>

\* Fault variant of _handle_incorrect: on_combo_break is called without
\* the `combo > 0` test.
HandleIncorrectAlwaysBreaks(keystroke) ==
    /\ error_positions' = error_positions \cup {position}
    /\ position' = position + 1
    /\ errors' = errors + 1
    /\ combo_breaks' = Append(combo_breaks, combo)
    /\ combo' = 0
    /\ achieved_combo_milestones' = {}
    /\ result' = IF IsCompleteAt(position + 1) THEN TEXT_COMPLETE
                 ELSE INCORRECT
    /\ UNCHANGED <<correct, max_combo, milestone_events>>

\* TypingEngine._handle_incorrect
HandleIncorrect(keystroke) ==
    /\ error_positions' = error_positions \cup {position}
    /\ position' = position + 1
    /\ errors' = errors + 1
    /\ combo_breaks' = IF combo > 0 THEN Append(combo_breaks, combo)
                       ELSE combo_breaks
    /\ combo' = 0
    /\ achieved_combo_milestones' =
           IF combo > 0 THEN {} ELSE achieved_combo_milestones
    /\ result' = IF IsCompleteAt(position + 1) THEN TEXT_COMPLETE
                 ELSE INCORRECT
    /\ UNCHANGED <<correct, max_combo, milestone_events>>

\* Fault variant of _handle_backspace: the `position > 0` test is missing.
HandleBackspaceUnguarded(timestamp) ==
    /\ position' = position - 1
    /\ error_positions' = error_positions \ {position - 1}
    /\ result' = BACKSPACE_RESULT
    /\ UNCHANGED <<errors, correct, combo, max_combo,
                   achieved_combo_milestones, combo_breaks, milestone_events>>

\* Fault variant of _handle_backspace: clearing an error mark also takes the
\* error back out of the error count.
HandleBackspaceForgiving(timestamp) ==
    /\ position' = IF position > 0 THEN position - 1 ELSE position
    /\ error_positions' =
           IF position > 0 THEN error_positions \ {position - 1}
           ELSE error_positions
    /\ errors' = IF position > 0 /\ (position - 1) \in error_positions
                 THEN errors - 1 ELSE errors
    /\ result' = BACKSPACE_RESULT
    /\ UNCHANGED <<correct, combo, max_combo,
                   achieved_combo_milestones, combo_breaks, milestone_events>>

\* Fault variant of _handle_backspace: the error mark of the position the
\* cursor returns to is kept.
HandleBackspaceKeepsMark(timestamp) ==
    /\ position' = IF position > 0 THEN position - 1 ELSE position
    /\ result' = BACKSPACE_RESULT
    /\ UNCHANGED <<errors, correct, combo, max_combo, error_positions,
                   achieved_combo_milestones, combo_breaks, milestone_events>>

\* TypingEngine._handle_backspace
HandleBackspace(timestamp) ==
    /\ position' = IF position > 0 THEN position - 1 ELSE position
    /\ error_positions' =
           IF position > 0 THEN error_positions \ {position - 1}
           ELSE error_positions
    /\ result' = BACKSPACE_RESULT
    /\ UNCHANGED <<errors, correct, combo, max_combo,
                   achieved_combo_milestones, combo_breaks, milestone_events>>

\* Fault variant of process_key: the `is_complete` early return is missing.
HandleCharNoGuard(char, t, st) ==
    LET keystroke == NewKeystroke(char, t, st)
    IN /\ keystrokes' = Append(keystrokes, keystroke)
       /\ IF keystroke.is_correct
          THEN HandleCorrect(keystroke)
          ELSE HandleIncorrect(keystroke)
       /\ last_keystroke_time' = t
       /\ keystroke_events' = Append(keystroke_events, keystroke)

\* Fault variant of process_key: only correct keystrokes are recorded.
HandleCharCorrectOnly(char, t, st) ==
    IF is_complete
    THEN /\ result' = TEXT_COMPLETE
         /\ UNCHANGED <<position, errors, correct, last_keystroke_time, combo,
                        max_combo, keystrokes, error_positions,
                        achieved_combo_milestones, keystroke_events,
                        combo_breaks, milestone_events>>
    ELSE LET keystroke == NewKeystroke(char, t, st)
         IN /\ keystrokes' = IF keystroke.is_correct
                             THEN Append(keystrokes, keystroke)
                             ELSE keystrokes
            /\ IF keystroke.is_correct
               THEN HandleCorrect(keystroke)
               ELSE HandleIncorrect(keystroke)
            /\ last_keystroke_time' = t
            /\ keystroke_events' = Append(keystroke_events, keystroke)

\* The part of process_key after the backspace branch: a character key.
HandleChar(char, t, st) ==
    IF is_complete
    THEN /\ result' = TEXT_COMPLETE
         /\ UNCHANGED <<position, errors, correct, last_keystroke_time, combo,
                        max_combo, keystrokes, error_positions,
                        achieved_combo_milestones, keystroke_events,
                        combo_breaks, milestone_events>>
    ELSE LET keystroke == NewKeystroke(char, t, st)
         IN /\ keystrokes' = Append(keystrokes, keystroke)
            /\ IF keystroke.is_correct
               THEN HandleCorrect(keystroke)
               ELSE HandleIncorrect(keystroke)
            /\ last_keystroke_time' = t
            /\ keystroke_events' = Append(keystroke_events, keystroke)

\* TypingEngine.process_key(char)
ProcessKey(char) ==
    /\ calls < MaxKeys
    /\ \E d \in Ticks :
          LET t == now + d
              st == IF start_time = None THEN t ELSE start_time
          IN /\ now' = t
             /\ start_time' = st
             /\ IF char = BACKSPACE
                THEN /\ HandleBackspace(t)
                     /\ UNCHANGED <<last_keystroke_time, keystrokes,
                                    keystroke_events>>
                ELSE HandleChar(char, t, st)
    /\ key' = char
    /\ calls' = calls + 1
    /\ UNCHANGED text

\* ------------------------------------------- state of the other components
\* The application loop of src/key4ce/ui/app.py (App and its two threads).
VARIABLES
    stack,          \* App._stack, bottom first
    key_queue,      \* App._key_queue, oldest key first
    running,        \* App._running
    last_category,  \* App._last_category
    pc_main,        \* where the main thread is inside App.run
    pc_input,       \* where the input thread is inside App._input_loop
    input_key,      \* the key the input thread holds after readkey()
    conn,           \* Database._conn: "none", "open" or "closed"
    saved,          \* the rows written by Database.save_session
    closed_ops,     \* store operations attempted after Database.close
    produced,       \* every key put on the queue, in put order
    dispatched,     \* every handle_key call: the key, the screen called and
                    \* the number of keys left on the queue behind it
    nread,          \* number of keys readkey() has returned
    theme,          \* App.theme (the theme's name)
    nscreens        \* number of screen objects constructed so far

appVars == <<stack, key_queue, running, last_category, pc_main, pc_input,
             input_key, conn, saved, closed_ops, produced, dispatched, nread,
             theme, nscreens>>

\* The application before App.run is called (App.__init__).
AppIdle ==
    /\ stack = <<>>
    /\ key_queue = <<>>
    /\ running = FALSE
    /\ last_category = "sentences"
    /\ pc_main = "idle"
    /\ pc_input = "idle"
    /\ input_key = ""
    /\ conn = "none"
    /\ saved = <<>>
    /\ closed_ops = 0
    /\ produced = <<>>
    /\ dispatched = <<>>
    /\ nread = 0
    /\ theme = "cyberpunk"
    /\ nscreens = 0

\* The components that are called with a value and return a value: each is
\* one record holding the object's fields, its inputs and its last result.
VARIABLES
    timeline,       \* a KeystrokeTimeline of src/key4ce/core/recorder.py
    analyzer,       \* a SessionAnalyzer of src/key4ce/core/analyzer.py
    focus,          \* one call of generate_focus_text (content/focus.py)
    content         \* one call of get_text (content/builtin.py)

\* KeystrokeTimeline(): no keystrokes, the clock at the start time.
TimelineIdle ==
    timeline = [start_time |-> 0, keystrokes |-> <<>>, now |-> 0,
                buckets |-> <<>>, fresh |-> FALSE]

\* SessionAnalyzer.__init__: empty dictionaries, nothing analysed.
AnalyzerFresh ==
    [input |-> <<>>, error_counts |-> <<>>, digraph_times |-> <<>>,
     combo_lengths |-> <<>>, error_patterns |-> <<>>,
     slowest_digraphs |-> <<>>, avg_combo |-> <<0, 1>>, analyzed |-> FALSE]

AnalyzerIdle == analyzer = AnalyzerFresh

\* No generate_focus_text call in progress.
FocusIdle == focus = [pc |-> "idle"]

\* No get_text call in progress.
ContentIdle == content = [pc |-> "idle"]

\* The stores and the text loader: each is one record holding the stored
\* data, the calls made so far and the value the last call returned.
VARIABLES
    db,             \* the Database of src/key4ce/data/db.py
    loader,         \* the cache and the fetches of src/key4ce/content/loader.py
    store           \* the Database of src/key4ce/data/database.py

storeVars == <<db, loader, store>>

\* Nothing stored, nothing fetched, no call made.
StoresIdle == db = [pc |-> "idle"] /\ loader = [pc |-> "idle"] /\ store = [pc |-> "idle"]

toolVars == <<timeline, analyzer, focus, content, db, loader, store>>

ToolsIdle == TimelineIdle /\ AnalyzerIdle /\ FocusIdle /\ ContentIdle /\ StoresIdle

\* TypingEngine.__init__(text): a fresh TypingState and fresh callbacks.
EngineInit(t) ==
    /\ text = t
    /\ position = 0
    /\ errors = 0
    /\ correct = 0
    /\ start_time = None
    /\ last_keystroke_time = None
    /\ combo = 0
    /\ max_combo = 0
    /\ keystrokes = <<>>
    /\ error_positions = {}
    /\ achieved_combo_milestones = {}
    /\ keystroke_events = <<>>
    /\ combo_breaks = <<>>
    /\ milestone_events = <<>>
    /\ now = 1
    /\ key = ""
    /\ result = ""
    /\ calls = 0

\* TypingEngine.__init__ on each target text.
Init ==
    /\ \E t \in Texts : EngineInit(t)
    /\ AppIdle
    /\ ToolsIdle

Next == \E char \in Keys : ProcessKey(char) /\ UNCHANGED <<appVars, toolVars>>

Spec == Init /\ [][Next]_vars


\* ------------------------------------------------------------------ claims
Last(s) == s[Len(s)]

\* The step is a process_key call with a character (not backspace).
CharStep == key' \in Chars

\* The step is a process_key call with backspace.
BackspaceStep == key' = BACKSPACE

\* C1: a typed character that differs from the target character at the
\* cursor is recorded as an incorrect keystroke and leaves the position
\* unchanged; the position advances only on a correct character.
C1_WrongKeyKeepsPosition ==
    [][/\ (CharStep /\ ~is_complete /\ key' # current_char) =>
             /\ Len(keystrokes') = Len(keystrokes) + 1
             /\ ~Last(keystrokes').is_correct
             /\ position' = position
       /\ position' > position => (CharStep /\ key' = current_char)]_vars

\* C2: the engine is complete exactly when position = len(text), and a
\* character key returns TEXT_COMPLETE exactly in that case.
C2_CompleteIffAtEnd ==
    /\ is_complete <=> position = Len(text)
    /\ key \in Chars => (result = TEXT_COMPLETE <=> position = Len(text))

\* C2 witness: a text of two characters completed with three keystrokes in
\* the timeline, so a backspace came in between.
C2_Witness ==
    /\ Len(text) = 2
    /\ is_complete
    /\ result = TEXT_COMPLETE
    /\ Len(keystrokes) = 3

\* C3: 0 <= position <= len(text) in every state, and a step that is not a
\* backspace never decreases the position.
C3_PositionBoundedMonotone ==
    /\ [](0 <= position /\ position <= Len(text))
    /\ [][~BackspaceStep => position' >= position]_vars

\* C3 witness: after one character and at least two backspaces the cursor
\* is at 0, so one backspace was pressed at position 0.
C3_Witness ==
    /\ key = BACKSPACE
    /\ position = 0
    /\ Len(keystrokes) = 1
    /\ calls >= 3

\* C4: when the engine is complete, every target index has a correct
\* keystroke recorded in the timeline at that position.
C4_CompleteCoversEveryIndex ==
    is_complete =>
        \A i \in 0..(Len(text) - 1) :
            \E k \in 1..Len(keystrokes) :
                keystrokes[k].is_correct /\ keystrokes[k].position = i

\* C5: the engine is idle (start_time unset) exactly when the timeline is
\* empty.
C5_IdleIffTimelineEmpty == (~is_started) <=> (keystrokes = <<>>)

\* C6: a backspace on a complete engine changes neither position nor
\* timeline; before completion it decrements the position by exactly one
\* when position > 0 and leaves it at 0 otherwise.
C6_BackspaceAfterCompleteNoOp ==
    [][BackspaceStep =>
          IF is_complete
          THEN position' = position /\ keystrokes' = keystrokes
          ELSE /\ position' = (IF position > 0 THEN position - 1 ELSE 0)
               /\ keystrokes' = keystrokes]_vars

\* C7: a character key on a complete engine appends no keystroke and leaves
\* position, the correct and error counters and the combo unchanged.
C7_CharAfterCompleteNoOp ==
    [][(CharStep /\ is_complete) =>
          UNCHANGED <<keystrokes, position, correct, errors, combo,
                      max_combo, error_positions>>]_vars

\* C7 witness: the engine is complete and the last call was a character key
\* later than the last recorded keystroke, so that key was not recorded.
C7_Witness ==
    /\ is_complete
    /\ key \in Chars
    /\ keystrokes # <<>>
    /\ Last(keystrokes).timestamp < now

\* C8: a backspace never appends to the timeline, a character key processed
\* while not complete appends exactly one keystroke (correct or not) holding
\* that character, and a character key on a complete engine appends none.
C8_TimelineCountsAcceptedChars ==
    [][/\ BackspaceStep => keystrokes' = keystrokes
       /\ (CharStep /\ ~is_complete) =>
             /\ Len(keystrokes') = Len(keystrokes) + 1
             /\ SubSeq(keystrokes', 1, Len(keystrokes)) = keystrokes
             /\ Last(keystrokes').char = key'
       /\ (CharStep /\ is_complete) => keystrokes' = keystrokes]_vars

\* C8 witness: an incorrect keystroke is the last of the timeline and a
\* backspace followed it without being recorded.
C8_Witness ==
    /\ key = BACKSPACE
    /\ Len(keystrokes) >= 2
    /\ ~Last(keystrokes).is_correct
    /\ calls = Len(keystrokes) + 1

\* C9: the correct and error counters equal the numbers of correct and
\* incorrect keystrokes in the timeline; accuracy is 100 on an empty
\* timeline and 100 * correct keystrokes / keystrokes otherwise, which is
\* also the timeline's own accuracy.
C9_AccuracyFromTimeline ==
    LET n == Len(keystrokes)
        c == CountCorrect(keystrokes)
    IN /\ correct = c
       /\ errors = n - c
       /\ n = 0 => accuracy = <<100, 1>>
       /\ n > 0 => SameValue(accuracy, <<100 * c, n>>)
       /\ SameValue(accuracy, TimelineAccuracy(keystrokes))

\* C9 witness: correct and incorrect keystrokes are in the timeline and a
\* backspace has just cleared an error mark.
C9_Witness ==
    /\ key = BACKSPACE
    /\ correct >= 1
    /\ errors >= 1
    /\ ~Last(keystrokes).is_correct
    /\ Last(keystrokes).position = position

\* C10: keystroke timestamps are non-decreasing in append order and none
\* precedes start_time, which is set whenever the timeline is not empty.
C10_TimestampsOrdered ==
    /\ \A i, j \in 1..Len(keystrokes) :
           i < j => keystrokes[i].timestamp <= keystrokes[j].timestamp
    /\ \A i \in 1..Len(keystrokes) :
           start_time # None /\ start_time <= keystrokes[i].timestamp

\* C10 witness: the clock started before the first recorded keystroke and
\* advanced between two keystrokes.
C10_Witness ==
    /\ Len(keystrokes) >= 2
    /\ start_time < keystrokes[1].timestamp
    /\ keystrokes[1].timestamp < keystrokes[2].timestamp


\* ======================================================================
\* The application loop: src/key4ce/ui/app.py with the three screens of
\* src/key4ce/ui/screens.  Two threads share _key_queue and _running: the
\* input thread reads keys and puts them on the queue, the main thread
\* drains the queue once per frame and dispatches to the top screen.
\* ======================================================================

\* Number of keys readkey() returns during one run.
MaxInput == 3

\* readchar.key.ESC, ENTER, UP, DOWN, BACKSPACE as key tokens.
ESC == "esc"
ENTER == "enter"
UP == "up"
DOWN == "down"
BACKSPACE_KEY == "backspace"

\* The keys the user presses in the explored runs.
AppKeys == {ESC, ENTER, "q", "r", "a"}

\* The text every typing screen of the explored runs is built on.
AppText == <<"a">>

\* menu.py: ALL_CONTENT_KEYS, WORD_TARGETS, THEME_NAMES
ALL_CONTENT_KEYS ==
    <<"words", "sentences", "quotes", "code", "numbers",
      "wikipedia", "quote", "focus">>
WORD_TARGETS == <<25, 50, 100>>
THEME_NAMES == <<"cyberpunk", "nord", "dracula", "monokai", "minimal">>

\* list.index
IndexOf(seq, x) == (CHOOSE i \in 1..Len(seq) : seq[i] = x) - 1

\* The values App.run may find in _skip_to: no --mode/--focus flag, or one.
SkipTo == {"", "sentences"}

\* How Database.connect can end: it returns; sqlite3.connect raises and
\* leaves _conn None; or executescript raises on a file that is not a
\* database, after _conn was assigned.
ConnectOutcomes == {"connected", "connect_raises", "script_raises"}

Front(s) == SubSeq(s, 1, Len(s) - 1)

\* ---------------------------------------------------------------- screens
\* A screen object; fields a screen class does not have stay at 0 / "".
MenuScreen(id) ==
    [kind |-> "menu", id |-> id, stage |-> 0, cat_index |-> 0,
     len_index |-> 1, position |-> 0, source |-> "", show_heatmap |-> FALSE]

TypingScreen(id, source) ==
    [kind |-> "typing", id |-> id, stage |-> 0, cat_index |-> 0,
     len_index |-> 0, position |-> 0, source |-> source,
     show_heatmap |-> FALSE]

ResultsScreen(id, source) ==
    [kind |-> "results", id |-> id, stage |-> 0, cat_index |-> 0,
     len_index |-> 0, position |-> 0, source |-> source,
     show_heatmap |-> FALSE]

\* ScreenAction and its constructors.
NoAction == [kind |-> "none", category |-> "", word_target |-> 0, theme_name |-> ""]
ActionOf(kind) == [NoAction EXCEPT !.kind = kind]

\* The text a typing screen is built on: a quote with the letter h for
\* the source "quotes", AppText for every other source.
QuoteText == <<"a", "h">>
ScreenText(s) == IF s.source = "quotes" THEN QuoteText ELSE AppText

\* The engine of a typing screen is complete (strict engine: the cursor
\* reached the end of the text).
EngineComplete(s) == s.position >= Len(ScreenText(s))

\* engine.handle_char of the typing screen: the cursor advances on a
\* match only, and a complete engine ignores the key.
StrictHandleChar(s, k) ==
    IF EngineComplete(s) THEN s
    ELSE IF k = ScreenText(s)[s.position + 1]
         THEN [s EXCEPT !.position = @ + 1]
         ELSE s

\* engine.handle_backspace of the typing screen.
StrictHandleBackspace(s) ==
    IF EngineComplete(s) THEN s
    ELSE IF s.position > 0 THEN [s EXCEPT !.position = @ - 1] ELSE s

\* len(key) == 1 and key.isprintable()
IsPrintable(k) == k \notin {ESC, ENTER, UP, DOWN, BACKSPACE_KEY}

\* MenuScreen._handle_theme_key
HandleThemeKey(s, k) ==
    CASE k \in {UP, "k"} ->
           [screen |-> [s EXCEPT !.cat_index = (@ - 1) % Len(THEME_NAMES)],
            action |-> NoAction]
      [] k \in {DOWN, "j"} ->
           [screen |-> [s EXCEPT !.cat_index = (@ + 1) % Len(THEME_NAMES)],
            action |-> NoAction]
      [] k = ENTER ->
           [screen |-> [s EXCEPT !.stage = 0, !.cat_index = 0],
            action |-> [ActionOf("change_theme") EXCEPT
                           !.theme_name = THEME_NAMES[s.cat_index + 1]]]
      [] k \in {BACKSPACE_KEY, ESC} ->
           [screen |-> [s EXCEPT !.stage = 0, !.cat_index = 0],
            action |-> NoAction]
      [] k \in {"q", "Q"} -> [screen |-> s, action |-> ActionOf("quit")]
      [] OTHER -> [screen |-> s, action |-> NoAction]

\* Fault variant of _launch: the default word target whatever is
\* selected.
LaunchDefaultLength(s) ==
    [ActionOf("start_session") EXCEPT
        !.category = ALL_CONTENT_KEYS[s.cat_index + 1],
        !.word_target = WORD_TARGETS[2]]

\* MenuScreen._launch
Launch(s) ==
    [ActionOf("start_session") EXCEPT
        !.category = ALL_CONTENT_KEYS[s.cat_index + 1],
        !.word_target = WORD_TARGETS[s.len_index + 1]]

\* MenuScreen.handle_key
MenuHandleKey(s, k) ==
    IF s.stage = 2 THEN HandleThemeKey(s, k)
    ELSE
    CASE k \in {UP, "k"} ->
           [screen |-> IF s.stage = 0
                       THEN [s EXCEPT !.cat_index = (@ - 1) % Len(ALL_CONTENT_KEYS)]
                       ELSE [s EXCEPT !.len_index = (@ - 1) % Len(WORD_TARGETS)],
            action |-> NoAction]
      [] k \in {DOWN, "j"} ->
           [screen |-> IF s.stage = 0
                       THEN [s EXCEPT !.cat_index = (@ + 1) % Len(ALL_CONTENT_KEYS)]
                       ELSE [s EXCEPT !.len_index = (@ + 1) % Len(WORD_TARGETS)],
            action |-> NoAction]
      [] k = ENTER ->
           IF s.stage = 0
           THEN [screen |-> [s EXCEPT !.stage = 1], action |-> NoAction]
           ELSE [screen |-> s, action |-> Launch(s)]
      [] k = BACKSPACE_KEY ->
           [screen |-> IF s.stage = 1 THEN [s EXCEPT !.stage = 0] ELSE s,
            action |-> NoAction]
      [] k \in {"t", "T"} /\ s.stage = 0 ->
           [screen |-> [s EXCEPT !.cat_index = IndexOf(THEME_NAMES, theme),
                                 !.stage = 2],
            action |-> NoAction]
      [] k \in {"q", "Q"} -> [screen |-> s, action |-> ActionOf("quit")]
      [] OTHER -> [screen |-> s, action |-> NoAction]

\* TypingScreen.handle_key
TypingHandleKey(s, k) ==
    IF k = ESC THEN [screen |-> s, action |-> ActionOf("pop")]
    ELSE IF k \in {"h", "H"}
    THEN [screen |-> [s EXCEPT !.show_heatmap = ~@], action |-> NoAction]
    ELSE IF k = BACKSPACE_KEY
    THEN [screen |-> StrictHandleBackspace(s), action |-> NoAction]
    ELSE IF IsPrintable(k)
    THEN LET s1 == StrictHandleChar(s, k)
         IN [screen |-> s1,
             action |-> IF EngineComplete(s1)
                        THEN ActionOf("session_complete")
                        ELSE NoAction]
    ELSE [screen |-> s, action |-> NoAction]

\* ResultsScreen.handle_key
ResultsHandleKey(s, k) ==
    [screen |-> s,
     action |-> IF k \in {"r", "R"} THEN ActionOf("retry")
                ELSE IF k \in {"f", "F"} THEN ActionOf("focus_from_results")
                ELSE IF k \in {"m", "M", ESC} THEN ActionOf("go_menu")
                ELSE IF k \in {"q", "Q"} THEN ActionOf("quit")
                ELSE NoAction]

\* screen.handle_key(key), by the class of the screen.
HandleKey(s, k) ==
    CASE s.kind = "menu" -> MenuHandleKey(s, k)
      [] s.kind = "typing" -> TypingHandleKey(s, k)
      [] s.kind = "results" -> ResultsHandleKey(s, k)

\* ------------------------------------------------------------ persistence
\* A Database method that asserts self._conn was called n times: calls
\* made while the store is not open are counted.
StoreOps(n) ==
    closed_ops' = IF conn = "open" THEN closed_ops ELSE closed_ops + n

\* The row Database.save_session writes for the engine of screen s.
SavedRow(s) ==
    [screen |-> s.id, source |-> s.source, complete |-> EngineComplete(s)]

\* Fault variant of the pop loop: nothing is popped.
PopNothing(stk) == stk

\* while len(self._stack) > 1: self._stack.pop()
PopToBottom(stk) == <<stk[1]>>

\* ------------------------------------------------------- App._handle_action
\* _handle_action(action) on the stack stk left by handle_key; eng is the
\* typing screen whose handle_key returned the action, save_ok says whether
\* Database.save_session returns or raises.
HandleAction(action, stk, eng, save_ok) ==
    CASE action.kind = "quit" ->
           /\ running' = FALSE
           /\ stack' = stk
           /\ UNCHANGED <<last_category, theme, nscreens, saved, closed_ops>>
      [] action.kind = "pop" ->
           /\ stack' = IF Len(stk) > 1 THEN Front(stk) ELSE stk
           /\ UNCHANGED <<running, last_category, theme, nscreens, saved,
                          closed_ops>>
      [] action.kind = "go_menu" ->
           /\ stack' = <<MenuScreen(nscreens + 1)>>
           /\ nscreens' = nscreens + 1
           /\ StoreOps(2)
           /\ UNCHANGED <<running, last_category, theme, saved>>
      [] action.kind = "change_theme" ->
           /\ theme' = action.theme_name
           /\ stack' = <<MenuScreen(nscreens + 1)>>
           /\ nscreens' = nscreens + 1
           /\ StoreOps(2)
           /\ UNCHANGED <<running, last_category, saved>>
      [] action.kind = "start_session" ->
           /\ last_category' = action.category
           /\ stack' = Append(stk, TypingScreen(nscreens + 1, action.category))
           /\ nscreens' = nscreens + 1
           /\ StoreOps(IF action.category = "focus" THEN 2 ELSE 1)
           /\ UNCHANGED <<running, theme, saved>>
      [] action.kind = "session_complete" ->
           IF save_ok
           THEN /\ saved' = Append(saved, SavedRow(eng))
                /\ stack' = Append(stk, ResultsScreen(nscreens + 1, eng.source))
                /\ nscreens' = nscreens + 1
                /\ StoreOps(2)
                /\ UNCHANGED <<running, last_category, theme>>
           ELSE /\ stack' = stk
                /\ StoreOps(1)
                /\ UNCHANGED <<running, last_category, theme, nscreens, saved>>
      [] action.kind = "retry" ->
           /\ stack' = Append(PopToBottom(stk),
                              TypingScreen(nscreens + 1, last_category))
           /\ nscreens' = nscreens + 1
           /\ StoreOps(1)
           /\ UNCHANGED <<running, last_category, theme, saved>>
      [] action.kind = "focus_from_results" ->
           /\ last_category' = "focus"
           /\ stack' = Append(PopToBottom(stk),
                              TypingScreen(nscreens + 1, "focus"))
           /\ nscreens' = nscreens + 1
           /\ StoreOps(1)
           /\ UNCHANGED <<running, theme, saved>>
      [] OTHER ->
           /\ stack' = stk
           /\ UNCHANGED <<running, last_category, theme, nscreens, saved,
                          closed_ops>>

\* ------------------------------------------------------------ main thread
\* The index in _stack of the screen _dispatch_key calls: self._stack[-1].
DispatchTargetBottom(stk) == 1
DispatchTarget(stk) == Len(stk)

\* Where the inner drain loop goes after one _dispatch_key: it leaves the
\* loop when the key stopped the application.
AfterDispatchNoBreak(run) == "drain"
AfterDispatch(run) == IF run THEN "drain" ELSE "render"

\* App.run up to the try: Database.connect().
Connect(outcome) ==
    /\ pc_main = "idle"
    /\ conn' = IF outcome = "connect_raises" THEN "none" ELSE "open"
    /\ pc_main' = IF outcome = "connected" THEN "setup" ELSE "returned"
    /\ UNCHANGED <<stack, key_queue, running, last_category, pc_input,
                   input_key, saved, closed_ops, produced, dispatched, nread,
                   theme, nscreens>>

\* App.run from the try to the start of the render loop: the first screen
\* is pushed and the input thread started.
Setup(skip_to) ==
    /\ pc_main = "setup"
    /\ running' = TRUE
    /\ IF skip_to # ""
       THEN /\ last_category' = skip_to
            /\ stack' = Append(stack, TypingScreen(nscreens + 1, skip_to))
            /\ StoreOps(IF skip_to = "focus" THEN 2 ELSE 1)
       ELSE /\ stack' = Append(stack, MenuScreen(nscreens + 1))
            /\ StoreOps(2)
            /\ UNCHANGED last_category
    /\ nscreens' = nscreens + 1
    /\ pc_input' = "while"
    /\ pc_main' = "while"
    /\ UNCHANGED <<key_queue, input_key, conn, saved, produced, dispatched,
                   nread, theme>>

\* while self._running and self._stack
LoopTest ==
    /\ pc_main = "while"
    /\ pc_main' = IF running /\ stack # <<>> THEN "drain" ELSE "finally"
    /\ UNCHANGED <<stack, key_queue, running, last_category, pc_input,
                   input_key, conn, saved, closed_ops, produced, dispatched,
                   nread, theme, nscreens>>

\* One pass of the inner loop on a non-empty queue: get_nowait(),
\* _dispatch_key(key) and the test that leaves the loop after a quit.  An
\* exception of save_session leaves the try block.
DispatchKey(save_ok) ==
    /\ pc_main = "drain"
    /\ key_queue # <<>>
    /\ key_queue' = Tail(key_queue)
    /\ IF stack = <<>>
       THEN /\ pc_main' = AfterDispatch(running)
            /\ UNCHANGED <<stack, running, last_category, theme, nscreens,
                           saved, closed_ops, dispatched>>
       ELSE LET k == Head(key_queue)
                target == DispatchTarget(stack)
                hk == HandleKey(stack[target], k)
                stk == [stack EXCEPT ![target] = hk.screen]
            IN /\ dispatched' =
                     Append(dispatched, [key |-> k, screen |-> stack[target].id,
                                         rest |-> Len(key_queue) - 1])
               /\ HandleAction(hk.action, stk, hk.screen, save_ok)
               /\ pc_main' = IF hk.action.kind = "session_complete" /\ ~save_ok
                             THEN "finally"
                             ELSE AfterDispatch(running')
    /\ UNCHANGED <<pc_input, input_key, conn, produced, nread>>

\* The inner loop finds the queue empty.
DrainDone ==
    /\ pc_main = "drain"
    /\ key_queue = <<>>
    /\ pc_main' = "render"
    /\ UNCHANGED <<stack, key_queue, running, last_category, pc_input,
                   input_key, conn, saved, closed_ops, produced, dispatched,
                   nread, theme, nscreens>>

\* live.update(self._stack[-1].render()) and time.sleep(1 / FPS).
RenderSleep ==
    /\ pc_main = "render"
    /\ pc_main' = "while"
    /\ UNCHANGED <<stack, key_queue, running, last_category, pc_input,
                   input_key, conn, saved, closed_ops, produced, dispatched,
                   nread, theme, nscreens>>

\* finally: self.db.close(), then run returns.
Close ==
    /\ pc_main = "finally"
    /\ conn' = IF conn = "open" THEN "closed" ELSE conn
    /\ pc_main' = "returned"
    /\ UNCHANGED <<stack, key_queue, running, last_category, pc_input,
                   input_key, saved, closed_ops, produced, dispatched, nread,
                   theme, nscreens>>

\* ----------------------------------------------------------- input thread
\* while self._running
InputLoopTest ==
    /\ pc_input = "while"
    /\ pc_input' = IF running THEN "readkey" ELSE "done"
    /\ UNCHANGED <<stack, key_queue, running, last_category, pc_main,
                   input_key, conn, saved, closed_ops, produced, dispatched,
                   nread, theme, nscreens>>

\* key = readchar.readkey() returns the key k.
InputReadKey(k) ==
    /\ pc_input = "readkey"
    /\ nread < MaxInput
    /\ input_key' = k
    /\ nread' = nread + 1
    /\ pc_input' = "if"
    /\ UNCHANGED <<stack, key_queue, running, last_category, pc_main, conn,
                   saved, closed_ops, produced, dispatched, theme, nscreens>>

\* readchar.readkey() raises: except Exception: break.
InputReadRaises ==
    /\ pc_input = "readkey"
    /\ pc_input' = "done"
    /\ UNCHANGED <<stack, key_queue, running, last_category, pc_main,
                   input_key, conn, saved, closed_ops, produced, dispatched,
                   nread, theme, nscreens>>

\* if self._running
InputTestRunning ==
    /\ pc_input = "if"
    /\ pc_input' = IF running THEN "put" ELSE "while"
    /\ UNCHANGED <<stack, key_queue, running, last_category, pc_main,
                   input_key, conn, saved, closed_ops, produced, dispatched,
                   nread, theme, nscreens>>

\* self._key_queue.put(key): queue.Queue() has no maxsize, put never blocks.
InputPut ==
    /\ pc_input = "put"
    /\ key_queue' = Append(key_queue, input_key)
    /\ produced' = Append(produced, input_key)
    /\ pc_input' = "while"
    /\ UNCHANGED <<stack, running, last_category, pc_main, input_key, conn,
                   saved, closed_ops, dispatched, nread, theme, nscreens>>

\* ---------------------------------------------------------- specification
MainStep ==
    \/ \E outcome \in ConnectOutcomes : Connect(outcome)
    \/ \E skip_to \in SkipTo : Setup(skip_to)
    \/ LoopTest
    \/ \E save_ok \in BOOLEAN : DispatchKey(save_ok)
    \/ DrainDone
    \/ RenderSleep
    \/ Close

InputStep ==
    \/ InputLoopTest
    \/ \E k \in AppKeys : InputReadKey(k)
    \/ InputReadRaises
    \/ InputTestRunning
    \/ InputPut

\* App.__init__: the engine of src/key4ce/core/engine.py is not used by the
\* application loop and stays as constructed.
InitApp ==
    /\ EngineInit(AppText)
    /\ AppIdle
    /\ ToolsIdle

NextApp ==
    \/ \E outcome \in ConnectOutcomes : Connect(outcome) /\ UNCHANGED <<vars, toolVars>>
    \/ \E skip_to \in SkipTo : Setup(skip_to) /\ UNCHANGED <<vars, toolVars>>
    \/ LoopTest /\ UNCHANGED <<vars, toolVars>>
    \/ \E save_ok \in BOOLEAN : DispatchKey(save_ok) /\ UNCHANGED <<vars, toolVars>>
    \/ DrainDone /\ UNCHANGED <<vars, toolVars>>
    \/ RenderSleep /\ UNCHANGED <<vars, toolVars>>
    \/ Close /\ UNCHANGED <<vars, toolVars>>
    \/ InputLoopTest /\ UNCHANGED <<vars, toolVars>>
    \/ \E k \in AppKeys : InputReadKey(k) /\ UNCHANGED <<vars, toolVars>>
    \/ InputReadRaises /\ UNCHANGED <<vars, toolVars>>
    \/ InputTestRunning /\ UNCHANGED <<vars, toolVars>>
    \/ InputPut /\ UNCHANGED <<vars, toolVars>>

\* The main thread is never starved: each of its steps, once enabled, is
\* eventually taken.
SpecApp == InitApp /\ [][NextApp]_appVars /\ WF_appVars(MainStep /\ UNCHANGED <<vars, toolVars>>)


\* ------------------------------------------------ claims on the app loop
\* The keys of the handle_key calls made so far, in call order.
DispatchedKeys == [i \in 1..Len(dispatched) |-> dispatched[i].key]

\* The step is one _dispatch_key call that reached a screen.
DispatchStep == dispatched' # dispatched

\* C11: keys are dispatched in the order the input thread enqueued them (the
\* keys handed to screens, followed by the keys still queued, are exactly
\* the keys put, in put order), and every key is handed to the screen that
\* is on top of the stack when it is dispatched.
C11_FifoToTopScreen ==
    /\ [](DispatchedKeys \o key_queue = produced)
    /\ [][DispatchStep =>
             /\ Last(dispatched').key = Head(key_queue)
             /\ Last(dispatched').screen = stack[Len(stack)].id]_appVars

\* C11 witness: a key changed the stack while another key was queued behind
\* it, and that key went to a different screen within the same drain.
C11_Witness ==
    \E i \in 1..(Len(dispatched) - 1) :
        /\ dispatched[i].rest >= 1
        /\ dispatched[i].screen # dispatched[i + 1].screen

\* C12: once _running is false no key reaches a screen any more.
C12_NoDispatchAfterQuit ==
    [][~running => dispatched' = dispatched]_appVars

\* C12 witness: the application quit and returned while a key enqueued
\* before the quit is still on the queue, undelivered, and a key read after
\* the quit was dropped by the input thread.
C12_Witness ==
    /\ pc_main = "returned"
    /\ ~running
    /\ dispatched # <<>>
    /\ key_queue # <<>>
    /\ nread > Len(produced)
    /\ pc_input \in {"while", "done"}

\* The largest capacity that would bound the queue in the explored runs.
QueueCapacity == MaxInput - 1

\* C13: the key queue is bounded: its length never exceeds a fixed
\* capacity, here any capacity below the number of keys the user presses.
C13_QueueBounded == Len(key_queue) <= QueueCapacity

\* C14: Escape handed to a typing screen removes that screen from the top
\* of the stack and saves nothing, whatever the stack holds; and every
\* saved session comes from a complete engine.
C14_EscapeRemovesTypingScreen ==
    /\ [][(/\ DispatchStep
           /\ Last(dispatched').key = ESC
           /\ stack[Len(stack)].kind = "typing")
          => /\ stack' = Front(stack)
             /\ saved' = saved]_appVars
    /\ [](\A i \in 1..Len(saved) : saved[i].complete)

\* C15: once _running is false the render loop ends and run returns; when
\* run has returned, on any path, the store is not open; and no store
\* operation is attempted on a closed store.
C15_StoreClosedOnExit ==
    /\ [](pc_main = "returned" => conn # "open")
    /\ [](closed_ops = 0)
    /\ (pc_main \in {"while", "drain", "render"} /\ ~running)
           ~> (pc_main = "returned")



\* ======================================================================
\* The screens under the keys of one user: App._dispatch_key of
\* src/key4ce/ui/app.py called key by key on the stack App.run has set up,
\* without the queue between the two threads.
\* ======================================================================

\* The number of keys pressed in the explored runs.
MaxPresses == 5

\* The keys the user presses.
ScreenKeys == {ESC, ENTER, BACKSPACE_KEY, "a", "h", "r", "f", "m", "q"}

\* --mode of the explored launches: none, sentences or quotes.
ScreenModes == {"", "sentences", "quotes"}

\* App._dispatch_key(key) inside the loop of App.run.  dispatched holds the
\* last call only: the key, the screen it went to as it was before and
\* after handle_key, and the kind of the action handle_key returned.
PressKey(k, save_ok) ==
    /\ pc_main = "drain"
    /\ running
    /\ stack # <<>>
    /\ nread < MaxPresses
    /\ nread' = nread + 1
    /\ LET target == DispatchTarget(stack)
           hk == HandleKey(stack[target], k)
           stk == [stack EXCEPT ![target] = hk.screen]
       IN /\ dispatched' = <<[key |-> k, screen |-> stack[target].id,
                              rest |-> 0, before |-> stack[target],
                              after |-> hk.screen, action |-> hk.action]>>
          /\ HandleAction(hk.action, stk, hk.screen, save_ok)
          /\ pc_main' = IF hk.action.kind = "session_complete" /\ ~save_ok
                        THEN "finally" ELSE "drain"
    /\ UNCHANGED <<key_queue, pc_input, input_key, conn, produced>>

\* App.run has connected the store, pushed the first screen and entered
\* its loop.
InitScreens ==
    /\ EngineInit(AppText)
    /\ ToolsIdle
    /\ key_queue = <<>>
    /\ running = TRUE
    /\ pc_main = "drain"
    /\ pc_input = "while"
    /\ input_key = ""
    /\ conn = "open"
    /\ saved = <<>>
    /\ closed_ops = 0
    /\ produced = <<>>
    /\ dispatched = <<>>
    /\ nread = 0
    /\ theme = "cyberpunk"
    /\ nscreens = 1
    /\ \E skip_to \in ScreenModes :
          /\ last_category = IF skip_to # "" THEN skip_to ELSE "sentences"
          /\ stack = IF skip_to # "" THEN <<TypingScreen(1, skip_to)>>
                     ELSE <<MenuScreen(1)>>

NextScreens ==
    \/ \E k \in ScreenKeys, save_ok \in BOOLEAN :
          PressKey(k, save_ok) /\ UNCHANGED <<vars, toolVars>>

SpecScreens == InitScreens /\ [][NextScreens]_appVars

\* --------------------------------------------------- claims on the screens
\* The last _dispatch_key call went to a typing screen whose engine was not
\* complete, with the character the engine expected.
ExpectedKeyPressed ==
    /\ dispatched # <<>>
    /\ dispatched[1].before.kind = "typing"
    /\ ~EngineComplete(dispatched[1].before)
    /\ dispatched[1].key =
          ScreenText(dispatched[1].before)[dispatched[1].before.position + 1]

\* C34: every character of the target pressed in its turn on a typing
\* screen reaches the engine, which moves on by one character, and the
\* key that completes the text makes the screen return SessionComplete.
C34_TargetKeysCompleteTheText ==
    ExpectedKeyPressed =>
        /\ dispatched[1].after.position = dispatched[1].before.position + 1
        /\ EngineComplete(dispatched[1].after)
              => dispatched[1].action.kind = "session_complete"

\* C35: no engine is saved twice: the saved rows come from different
\* typing screens.
C35_EngineSavedAtMostOnce ==
    \A i, j \in 1..Len(saved) : saved[i].screen = saved[j].screen => i = j

MenuKeys ==
    {UP, DOWN, ENTER, BACKSPACE_KEY, ESC, "k", "j", "t", "T", "q", "Q", "a"}

\* One key on the menu screen, which is alone on the stack or comes back
\* to the top when the session it started is left: handle_key, and for
\* ChangeTheme the new menu the application builds with the chosen theme.
\* dispatched holds the last call, as for PressKey.
MenuKey(k) ==
    /\ LET hk == MenuHandleKey(stack[1], k)
       IN /\ dispatched' = <<[key |-> k, screen |-> stack[1].id, rest |-> 0,
                              before |-> stack[1], after |-> hk.screen,
                              action |-> hk.action]>>
          /\ IF hk.action.kind = "change_theme"
             THEN /\ theme' = hk.action.theme_name
                  /\ stack' = <<MenuScreen(1)>>
             ELSE /\ stack' = <<hk.screen>>
                  /\ UNCHANGED theme
    /\ UNCHANGED <<key_queue, running, last_category, pc_main, pc_input,
                   input_key, conn, saved, closed_ops, produced, nread,
                   nscreens>>

\* The application shows a new menu, built with any of the themes.
InitMenu ==
    /\ EngineInit(AppText)
    /\ ToolsIdle
    /\ key_queue = <<>>
    /\ running = TRUE
    /\ last_category = "sentences"
    /\ pc_main = "drain"
    /\ pc_input = "while"
    /\ input_key = ""
    /\ conn = "open"
    /\ saved = <<>>
    /\ closed_ops = 0
    /\ produced = <<>>
    /\ dispatched = <<>>
    /\ nread = 0
    /\ nscreens = 1
    /\ theme \in {THEME_NAMES[i] : i \in 1..Len(THEME_NAMES)}
    /\ stack = <<MenuScreen(1)>>

NextMenu ==
    \/ \E k \in MenuKeys : MenuKey(k) /\ UNCHANGED <<vars, toolVars>>

SpecMenu == InitMenu /\ [][NextMenu]_appVars

\* The indices of menu screen s are valid for the lists its stage uses.
MenuIndicesValid(s) ==
    /\ s.stage \in {0, 1, 2}
    /\ s.len_index \in 0..(Len(WORD_TARGETS) - 1)
    /\ s.stage \in {0, 1} => s.cat_index \in 0..(Len(ALL_CONTENT_KEYS) - 1)
    /\ s.stage = 2 => s.cat_index \in 0..(Len(THEME_NAMES) - 1)

\* C40: after every key the menu's indices are valid for its stage, and a
\* StartSession action comes from Enter in stage 1 only and carries the
\* category and the word target selected when Enter was pressed.
C40_MenuSelectionValid ==
    /\ MenuIndicesValid(stack[1])
    /\ dispatched # <<>> =>
          /\ MenuIndicesValid(dispatched[1].after)
          /\ dispatched[1].action.kind = "start_session" =>
                /\ dispatched[1].key = ENTER
                /\ dispatched[1].before.stage = 1
                /\ \E c \in 1..Len(ALL_CONTENT_KEYS), w \in 1..Len(WORD_TARGETS) :
                      /\ c = dispatched[1].before.cat_index + 1
                      /\ w = dispatched[1].before.len_index + 1
                      /\ dispatched[1].action.category = ALL_CONTENT_KEYS[c]
                      /\ dispatched[1].action.word_target = WORD_TARGETS[w]

\* C40 witness: Up wrapped the category selection to the last category,
\* Down moved the length selection to the last word target, and Enter in
\* stage 1 started a focus session of 100 words.
C40_Witness ==
    /\ dispatched # <<>>
    /\ dispatched[1].key = ENTER
    /\ dispatched[1].action.kind = "start_session"
    /\ dispatched[1].action.category = "focus"
    /\ dispatched[1].action.word_target = 100
    /\ stack[1].stage = 1

\* ======================================================================
\* KeystrokeTimeline of src/key4ce/core/recorder.py: record and
\* wpm_buckets.  Times are whole seconds; a WPM value, which the source
\* rounds to one decimal, is held in tenths.
\* ======================================================================

\* Number of record calls explored per timeline.
MaxRecords == 3

\* bucket_sec, the default of wpm_buckets.
BucketSec == 5

\* Seconds that may pass before a record or wpm_buckets call reads the clock.
TimelineTicks == {0, 3}

\* round(a / b) for b > 0, a >= 0, to the nearest whole number.
RoundDiv(a, b) == (2 * a + b) \div (2 * b)

\* round((chars / 5) / (bucket_sec / 60), 1), in tenths of a WPM.
BucketWpm(chars) == RoundDiv(120 * chars, BucketSec)

\* The number of correct keystrokes a bucket's WPM value stands for.
BucketChars(w) == RoundDiv(w * BucketSec, 120)

\* sum(1 for k in keystrokes if k.is_correct and lo <= k.timestamp < hi)
RECURSIVE CorrectBetween(_, _, _)
CorrectBetween(ks, lo, hi) ==
    IF ks = <<>> THEN 0
    ELSE (IF Head(ks).is_correct /\ lo <= Head(ks).timestamp
                                 /\ Head(ks).timestamp < hi
          THEN 1 ELSE 0) + CorrectBetween(Tail(ks), lo, hi)

\* max(1, int(total / bucket_sec))
NBuckets(total) ==
    IF total \div BucketSec >= 1 THEN total \div BucketSec ELSE 1

\* KeystrokeTimeline.wpm_buckets() on timeline tl at clock value t.
WpmBuckets(tl, t) ==
    IF tl.keystrokes = <<>> THEN <<>>
    ELSE [b \in 1..NBuckets(t - tl.start_time) |->
             BucketWpm(CorrectBetween(tl.keystrokes,
                                      tl.start_time + (b - 1) * BucketSec,
                                      tl.start_time + b * BucketSec))]

\* KeystrokeTimeline.record(char, expected, position, is_correct), called d
\* seconds after the last clock read.
Record(char, expected, pos, is_correct, d) ==
    /\ Len(timeline.keystrokes) < MaxRecords
    /\ timeline' =
         [timeline EXCEPT
            !.now = @ + d,
            !.keystrokes = Append(@, [char |-> char, expected |-> expected,
                                      timestamp |-> timeline.now + d,
                                      is_correct |-> is_correct,
                                      position |-> pos]),
            !.fresh = FALSE]

\* A wpm_buckets() call d seconds after the last clock read; fresh marks
\* that buckets is the result for the keystrokes now in the timeline.
CallWpmBuckets(d) ==
    /\ ~timeline.fresh
    /\ timeline' = [timeline EXCEPT
                      !.now = @ + d,
                      !.buckets = WpmBuckets(timeline, timeline.now + d),
                      !.fresh = TRUE]

\* The keystrokes a strict engine records on the text "aa...": the typed
\* key is right or wrong, the position is the number of right keys so far.
NextTimeline ==
    \/ \E ok \in BOOLEAN, d \in TimelineTicks :
          /\ Record(IF ok THEN "a" ELSE "b", "a",
                    CountCorrect(timeline.keystrokes), ok, d)
          /\ UNCHANGED <<vars, appVars, analyzer, focus, content, storeVars>>
    \/ \E d \in TimelineTicks :
          /\ CallWpmBuckets(d)
          /\ UNCHANGED <<vars, appVars, analyzer, focus, content, storeVars>>

InitTimeline ==
    /\ EngineInit(AppText)
    /\ AppIdle
    /\ ToolsIdle

SpecTimeline == InitTimeline /\ [][NextTimeline]_timeline

\* ------------------------------------------------ claims on the timeline
RECURSIVE SumBucketChars(_)
SumBucketChars(ws) ==
    IF ws = <<>> THEN 0 ELSE BucketChars(Head(ws)) + SumBucketChars(Tail(ws))

\* C16: the correct-keystroke counts of the buckets wpm_buckets returns sum
\* to the number of correct keystrokes in the timeline.
C16_BucketsCoverCorrectKeys ==
    timeline.fresh =>
        SumBucketChars(timeline.buckets) = CountCorrect(timeline.keystrokes)


\* ======================================================================
\* SessionAnalyzer of src/key4ce/core/analyzer.py: analyze(state) on the
\* keystrokes of a session.  A dict is the sequence of its items in
\* insertion order; a mean is the pair <<sum, count>>.
\* ======================================================================

\* The default of _get_error_patterns(limit) and the argument of
\* _get_slowest_digraphs in analyze.
ErrorPatternLimit == 10
SlowestDigraphLimit == 5

Min(a, b) == IF a <= b THEN a ELSE b

\* seq[:n]
Take(seq, n) == SubSeq(seq, 1, Min(n, Len(seq)))

\* f"{ks.char}->{ks.expected}"
ErrorKey(ks) == <<ks.char, "-", ">", ks.expected>>

\* key.split("->"): the pieces of key around every "->", found left to
\* right from position i on.
RECURSIVE SplitArrow(_, _, _)
SplitArrow(k, i, piece) ==
    IF i > Len(k) THEN <<piece>>
    ELSE IF i < Len(k) /\ k[i] = "-" /\ k[i + 1] = ">"
         THEN <<piece>> \o SplitArrow(k, i + 2, <<>>)
         ELSE SplitArrow(k, i + 1, Append(piece, k[i]))

\* self._error_counts[key] += 1 on a defaultdict(int)
DictIncrement(d, k) ==
    IF \E i \in 1..Len(d) : d[i].key = k
    THEN [i \in 1..Len(d) |->
             IF d[i].key = k THEN [d[i] EXCEPT !.count = @ + 1] ELSE d[i]]
    ELSE Append(d, [key |-> k, count |-> 1])

\* self._digraph_times[digraph].append(interval) on a defaultdict(list)
DictAppend(d, k, x) ==
    IF \E i \in 1..Len(d) : d[i].key = k
    THEN [i \in 1..Len(d) |->
             IF d[i].key = k THEN [d[i] EXCEPT !.times = Append(@, x)]
             ELSE d[i]]
    ELSE Append(d, [key |-> k, times |-> <<x>>])

\* One pass of the loop of _process_keystrokes, on keystrokes[i] (i is
\* 1-based here).
ProcessKeystroke(an, ks, i) ==
    [an EXCEPT
       !.error_counts =
           IF ~ks[i].is_correct THEN DictIncrement(@, ErrorKey(ks[i])) ELSE @,
       !.digraph_times =
           IF i > 1 /\ ks[i - 1].is_correct /\ ks[i].is_correct
           THEN DictAppend(@, <<ks[i - 1].expected, ks[i].expected>>,
                           (ks[i].timestamp - ks[i - 1].timestamp) * 1000)
           ELSE @]

\* SessionAnalyzer._process_keystrokes, from keystroke i on.
RECURSIVE ProcessKeystrokes(_, _, _)
ProcessKeystrokes(an, ks, i) ==
    IF i > Len(ks) THEN an
    ELSE ProcessKeystrokes(ProcessKeystroke(an, ks, i), ks, i + 1)

\* sorted(items, key=count, reverse=True): a stable sort, so items of equal
\* count keep their order.  rank[i] is the place of items[i] in the result;
\* appending <<>> turns a list given by a rule into a list of values.
KeepDictOrder(items) == items

SortByCountDesc(items) ==
    LET n == Len(items)
        rank == [i \in 1..n |->
                    1 + Cardinality({j \in 1..n :
                            \/ items[j].count > items[i].count
                            \/ items[j].count = items[i].count /\ j < i})]
                \o <<>>
    IN [p \in 1..n |-> items[CHOOSE i \in 1..n : rank[i] = p]] \o <<>>

\* SessionAnalyzer._get_error_patterns(limit)
GetErrorPatterns(error_counts, limit) ==
    LET top == Take(SortByCountDesc(error_counts), limit)
    IN [i \in 1..Len(top) |->
           LET parts == SplitArrow(top[i].key, 1, <<>>)
           IN [typed |-> parts[1], expected |-> parts[2],
               count |-> top[i].count]]

RECURSIVE SumSeq(_)
SumSeq(xs) == IF xs = <<>> THEN 0 ELSE Head(xs) + SumSeq(Tail(xs))

\* The mean a is smaller than the mean b.
MeanLess(a, b) == a[1] * b[2] < b[1] * a[2]

\* sorted(digraphs, key=avg_time_ms, reverse=True), stable.
SortByAvgDesc(items) ==
    LET n == Len(items)
        rank == [i \in 1..n |->
                    1 + Cardinality({j \in 1..n :
                            \/ MeanLess(items[i].avg_time_ms, items[j].avg_time_ms)
                            \/ /\ ~MeanLess(items[j].avg_time_ms, items[i].avg_time_ms)
                               /\ j < i})]
                \o <<>>
    IN [p \in 1..n |-> items[CHOOSE i \in 1..n : rank[i] = p]] \o <<>>

\* The DigraphStats of the digraphs with at least two samples, in dict order.
RECURSIVE DigraphStats(_)
DigraphStats(d) ==
    IF d = <<>> THEN <<>>
    ELSE (IF Len(Head(d).times) >= 2
          THEN <<[chars |-> Head(d).key,
                  avg_time_ms |-> <<SumSeq(Head(d).times), Len(Head(d).times)>>,
                  count |-> Len(Head(d).times),
                  times |-> Head(d).times]>>
          ELSE <<>>) \o DigraphStats(Tail(d))

\* SessionAnalyzer._get_slowest_digraphs(limit)
GetSlowestDigraphs(digraph_times, limit) ==
    Take(SortByAvgDesc(DigraphStats(digraph_times)), limit)

\* The values _process_keystrokes appends to _combo_lengths: the lengths
\* of the runs of correct keystrokes, each run ended by an incorrect
\* keystroke or by the end of the list; current_combo is the run so far.
RECURSIVE ComboLengths(_, _)
ComboLengths(ks, current_combo) ==
    IF ks = <<>>
    THEN IF current_combo > 0 THEN <<current_combo>> ELSE <<>>
    ELSE IF Head(ks).is_correct
    THEN ComboLengths(Tail(ks), current_combo + 1)
    ELSE (IF current_combo > 0 THEN <<current_combo>> ELSE <<>>)
         \o ComboLengths(Tail(ks), 0)

\* SessionAnalyzer.analyze(state) on the analyzer an, for state.keystrokes
\* = ks: the parts of the SessionAnalysis built from the two dictionaries.
Analyze(an, ks) ==
    LET done == ProcessKeystrokes(an, ks, 1)
        combos == an.combo_lengths \o ComboLengths(ks, 0)
    IN [done EXCEPT
          !.input = ks,
          !.combo_lengths = combos,
          !.error_patterns = GetErrorPatterns(done.error_counts, ErrorPatternLimit),
          !.slowest_digraphs =
              GetSlowestDigraphs(done.digraph_times, SlowestDigraphLimit),
          !.avg_combo = IF combos = <<>> THEN <<0, 1>>
                        ELSE <<SumSeq(combos), Len(combos)>>,
          !.analyzed = TRUE]

\* ------------------------------------------- a typing session, analysed
\* SessionAnalyzer().analyze(engine.state) at any point of a session of the
\* engine; the session ends there.
AnalyzeSession ==
    /\ ~analyzer.analyzed
    /\ analyzer' = Analyze(analyzer, keystrokes)

NextSession ==
    \/ \E char \in Keys :
          /\ ~analyzer.analyzed
          /\ ProcessKey(char)
          /\ UNCHANGED <<appVars, toolVars>>
    \/ /\ AnalyzeSession
       /\ UNCHANGED <<vars, appVars, timeline, focus, content, storeVars>>

SpecSession == Init /\ [][NextSession]_<<vars, analyzer>>

\* ---------------------------------------------- claims on the analyzer
\* The pair of list-adjacent keystrokes ks[i - 1], ks[i] is a sample the
\* slow-digraph list may use: both correct, positions one apart, and an
\* interval strictly between 0 and 2000 ms.
ValidSample(ks, i) ==
    /\ ks[i - 1].is_correct /\ ks[i].is_correct
    /\ ks[i].position = ks[i - 1].position + 1
    /\ (ks[i].timestamp - ks[i - 1].timestamp) * 1000 > 0
    /\ (ks[i].timestamp - ks[i - 1].timestamp) * 1000 < 2000

\* C17: every entry of the slow-digraph list is built from valid samples
\* only: its sample count is the number of valid samples of its digraph in
\* the analysed timeline, so no pair of keystrokes with a position gap
\* other than +1 and no interval <= 0 ms or >= 2000 ms contributes.
C17_SlowDigraphsFromValidSamples ==
    analyzer.analyzed =>
        \A e \in 1..Len(analyzer.slowest_digraphs) :
            LET entry == analyzer.slowest_digraphs[e]
                ks == analyzer.input
            IN entry.count =
                 Cardinality({i \in 2..Len(ks) :
                                 /\ ValidSample(ks, i)
                                 /\ <<ks[i - 1].expected, ks[i].expected>> = entry.chars})


\* ------------------------------------- the analyzer on timelines of errors
\* The characters of the error keystrokes; "-" and ">" are the characters
\* the error key is built with.
ErrChars == <<"a", "b", "-", ">">>

\* The number of (typed, expected) pairs with typed # expected.
NPairs == Len(ErrChars) * (Len(ErrChars) - 1)

\* The k-th (typed, expected) pair.
ErrPair(k) ==
    LET t == ((k - 1) \div (Len(ErrChars) - 1)) + 1
        r == ((k - 1) % (Len(ErrChars) - 1)) + 1
        e == IF r < t THEN r ELSE r + 1
    IN [typed |-> ErrChars[t], expected |-> ErrChars[e]]

\* The last RepeatedPairs pairs occur up to MaxRepeat times in a timeline,
\* every other pair at most once.
RepeatedPairs == 2
MaxRepeat == 2

\* How often each pair occurs in a timeline.
PairCounts ==
    {[k \in 1..NPairs |-> IF k <= NPairs - RepeatedPairs
                          THEN once[k]
                          ELSE many[k - (NPairs - RepeatedPairs)]] :
        once \in [1..(NPairs - RepeatedPairs) -> 0..1],
        many \in [1..RepeatedPairs -> 0..MaxRepeat]}

\* The pairs of a timeline from pair k on: pair k, c[k] times, and so on.
RECURSIVE PairBlocks(_, _)
PairBlocks(c, k) ==
    IF k > NPairs THEN <<>>
    ELSE [i \in 1..c[k] |-> ErrPair(k)] \o PairBlocks(c, k + 1)

\* state.keystrokes of a session with `lead` correct keystrokes followed by
\* the wrong keystrokes of c; one keystroke per second, positions counting up.
ErrorTimeline(c, lead) ==
    LET wrong == PairBlocks(c, 1)
    IN [i \in 1..(lead + Len(wrong)) |->
           IF i <= lead
           THEN [char |-> "a", expected |-> "a", timestamp |-> i,
                 is_correct |-> TRUE, position |-> i - 1]
           ELSE [char |-> wrong[i - lead].typed,
                 expected |-> wrong[i - lead].expected, timestamp |-> i,
                 is_correct |-> FALSE, position |-> i - 1]]

\* analyzer.analyze(state) on a fresh analyzer.
AnalyzeInput ==
    /\ ~analyzer.analyzed
    /\ analyzer' = Analyze(analyzer, analyzer.input)

InitAnalyzer ==
    /\ EngineInit(AppText)
    /\ AppIdle
    /\ TimelineIdle /\ FocusIdle /\ ContentIdle /\ StoresIdle
    /\ \E c \in PairCounts, lead \in 0..1 :
          analyzer = [AnalyzerFresh EXCEPT !.input = ErrorTimeline(c, lead)]

NextAnalyzer ==
    AnalyzeInput /\ UNCHANGED <<vars, appVars, timeline, focus, content, storeVars>>

SpecAnalyzer == InitAnalyzer /\ [][NextAnalyzer]_analyzer

\* The number of incorrect keystrokes of ks with the given typed and
\* expected characters.
ErrorCount(ks, typed, expected) ==
    Cardinality({i \in 1..Len(ks) :
                    /\ ~ks[i].is_correct
                    /\ <<ks[i].char>> = typed
                    /\ <<ks[i].expected>> = expected})

\* The top-errors list has at most limit entries, is sorted by count
\* descending, and every entry's count is the number of incorrect
\* keystrokes of the analysed timeline with its (expected, typed) pair.
TopErrorsWithin(limit) ==
    analyzer.analyzed =>
        LET ep == analyzer.error_patterns
        IN /\ Len(ep) <= limit
           /\ \A i, j \in 1..Len(ep) : i < j => ep[i].count >= ep[j].count
           /\ \A i \in 1..Len(ep) :
                 ep[i].count =
                     ErrorCount(analyzer.input, ep[i].typed, ep[i].expected)

MaxAnalyzeCalls == 2

\* The sessions analysed: up to two correct keystrokes, then up to two
\* wrong ones.
ReanalyzeInputs ==
    {ErrorTimeline(c, lead) :
        c \in {pc \in PairCounts : SumSeq(pc) <= 2}, lead \in 0..2}

\* analyzer.analyze(state) on the analyzer as the calls before left it,
\* with the state of the first call.
AnalyzeAgain ==
    /\ analyzer.calls < MaxAnalyzeCalls
    /\ analyzer' = [Analyze(analyzer, analyzer.input) EXCEPT !.calls = @ + 1]

InitReanalyze ==
    /\ EngineInit(AppText)
    /\ AppIdle
    /\ TimelineIdle /\ FocusIdle /\ ContentIdle /\ StoresIdle
    /\ \E ks \in ReanalyzeInputs :
          analyzer = [input |-> ks, error_counts |-> <<>>,
                      digraph_times |-> <<>>, combo_lengths |-> <<>>,
                      error_patterns |-> <<>>, slowest_digraphs |-> <<>>,
                      avg_combo |-> <<0, 1>>, analyzed |-> FALSE,
                      calls |-> 0]

NextReanalyze ==
    AnalyzeAgain /\ UNCHANGED <<vars, appVars, timeline, focus, content, storeVars>>

SpecReanalyze == InitReanalyze /\ [][NextReanalyze]_analyzer

\* C38: a second analyze call on the same analyzer with the same
\* keystrokes returns the error-pattern counts, the digraph sample counts
\* and the average combo of the first call.
C38_AnalyzeAgainSameResult ==
    [][analyzer.analyzed =>
          /\ analyzer'.error_patterns = analyzer.error_patterns
          /\ [i \in 1..Len(analyzer'.slowest_digraphs) |->
                 analyzer'.slowest_digraphs[i].count]
               = [i \in 1..Len(analyzer.slowest_digraphs) |->
                     analyzer.slowest_digraphs[i].count]
          /\ analyzer'.avg_combo[1] * analyzer.avg_combo[2]
               = analyzer.avg_combo[1] * analyzer'.avg_combo[2]]_analyzer

\* ======================================================================
\* The focus-text generator: generate_focus_text of
\* src/key4ce/content/focus.py.  A word is the sequence of its characters.
\* ======================================================================

\* builtin.COMMON_WORDS
COMMON_WORDS == <<
    <<"t", "h", "e">>, <<"b", "e">>, <<"t", "o">>, <<"o", "f">>,
    <<"a", "n", "d">>, <<"a">>, <<"i", "n">>, <<"t", "h", "a", "t">>,
    <<"h", "a", "v", "e">>, <<"i", "t">>, <<"f", "o", "r">>,
    <<"n", "o", "t">>, <<"o", "n">>, <<"w", "i", "t", "h">>, <<"h", "e">>,
    <<"a", "s">>, <<"y", "o", "u">>, <<"d", "o">>, <<"a", "t">>,
    <<"t", "h", "i", "s">>, <<"b", "u", "t">>, <<"h", "i", "s">>,
    <<"b", "y">>, <<"f", "r", "o", "m">>, <<"t", "h", "e", "y">>,
    <<"w", "e">>, <<"s", "a", "y">>, <<"h", "e", "r">>, <<"s", "h", "e">>,
    <<"o", "r">>, <<"a", "n">>, <<"w", "i", "l", "l">>, <<"m", "y">>,
    <<"o", "n", "e">>, <<"a", "l", "l">>, <<"w", "o", "u", "l", "d">>,
    <<"t", "h", "e", "r", "e">>, <<"t", "h", "e", "i", "r">>,
    <<"w", "h", "a", "t">>, <<"s", "o">>, <<"u", "p">>, <<"o", "u", "t">>,
    <<"i", "f">>, <<"a", "b", "o", "u", "t">>, <<"w", "h", "o">>,
    <<"g", "e", "t">>, <<"w", "h", "i", "c", "h">>, <<"g", "o">>,
    <<"m", "e">>, <<"w", "h", "e", "n">>, <<"m", "a", "k", "e">>,
    <<"c", "a", "n">>, <<"l", "i", "k", "e">>, <<"t", "i", "m", "e">>,
    <<"n", "o">>, <<"j", "u", "s", "t">>, <<"h", "i", "m">>,
    <<"k", "n", "o", "w">>, <<"t", "a", "k", "e">>,
    <<"p", "e", "o", "p", "l", "e">>, <<"i", "n", "t", "o">>,
    <<"y", "e", "a", "r">>, <<"y", "o", "u", "r">>, <<"g", "o", "o", "d">>,
    <<"s", "o", "m", "e">>, <<"c", "o", "u", "l", "d">>,
    <<"t", "h", "e", "m">>, <<"s", "e", "e">>, <<"o", "t", "h", "e", "r">>,
    <<"t", "h", "a", "n">>, <<"t", "h", "e", "n">>, <<"n", "o", "w">>,
    <<"l", "o", "o", "k">>, <<"o", "n", "l", "y">>, <<"c", "o", "m", "e">>,
    <<"i", "t", "s">>, <<"o", "v", "e", "r">>, <<"t", "h", "i", "n", "k">>,
    <<"a", "l", "s", "o">>, <<"b", "a", "c", "k">>,
    <<"a", "f", "t", "e", "r">>, <<"u", "s", "e">>, <<"t", "w", "o">>,
    <<"h", "o", "w">>, <<"o", "u", "r">>, <<"w", "o", "r", "k">>,
    <<"f", "i", "r", "s", "t">>, <<"w", "e", "l", "l">>, <<"w", "a", "y">>,
    <<"e", "v", "e", "n">>, <<"n", "e", "w">>, <<"w", "a", "n", "t">>,
    <<"b", "e", "c", "a", "u", "s", "e">>, <<"a", "n", "y">>,
    <<"t", "h", "e", "s", "e">>, <<"g", "i", "v", "e">>, <<"d", "a", "y">>,
    <<"m", "o", "s", "t">>, <<"u", "s">>, <<"g", "r", "e", "a", "t">>,
    <<"b", "e", "t", "w", "e", "e", "n">>, <<"n", "e", "e", "d">>,
    <<"l", "a", "r", "g", "e">>, <<"o", "f", "t", "e", "n">>,
    <<"h", "a", "n", "d">>, <<"h", "i", "g", "h">>,
    <<"p", "l", "a", "c", "e">>, <<"h", "o", "l", "d">>,
    <<"t", "u", "r", "n">>, <<"h", "e", "l", "p">>,
    <<"s", "t", "a", "r", "t">>, <<"s", "h", "o", "w">>,
    <<"h", "e", "a", "r">>, <<"p", "l", "a", "y">>, <<"r", "u", "n">>,
    <<"m", "o", "v", "e">>, <<"l", "i", "v", "e">>,
    <<"b", "e", "l", "i", "e", "v", "e">>, <<"h", "o", "l", "d">>,
    <<"b", "r", "i", "n", "g">>, <<"h", "a", "p", "p", "e", "n">>,
    <<"w", "r", "i", "t", "e">>, <<"p", "r", "o", "v", "i", "d", "e">>,
    <<"s", "i", "t">>, <<"s", "t", "a", "n", "d">>, <<"l", "o", "s", "e">>,
    <<"p", "a", "y">>, <<"m", "e", "e", "t">>,
    <<"i", "n", "c", "l", "u", "d", "e">>,
    <<"c", "o", "n", "t", "i", "n", "u", "e">>, <<"s", "e", "t">>,
    <<"l", "e", "a", "r", "n">>, <<"c", "h", "a", "n", "g", "e">>,
    <<"l", "e", "a", "d">>,
    <<"u", "n", "d", "e", "r", "s", "t", "a", "n", "d">>,
    <<"w", "a", "t", "c", "h">>, <<"f", "o", "l", "l", "o", "w">>,
    <<"s", "t", "o", "p">>, <<"c", "r", "e", "a", "t", "e">>,
    <<"s", "p", "e", "a", "k">>, <<"r", "e", "a", "d">>,
    <<"s", "p", "e", "n", "d">>, <<"g", "r", "o", "w">>,
    <<"o", "p", "e", "n">>, <<"w", "a", "l", "k">>, <<"w", "i", "n">>,
    <<"o", "f", "f", "e", "r">>, <<"r", "e", "m", "e", "m", "b", "e", "r">>,
    <<"l", "o", "v", "e">>, <<"c", "o", "n", "s", "i", "d", "e", "r">>,
    <<"a", "p", "p", "e", "a", "r">>, <<"b", "u", "y">>,
    <<"w", "a", "i", "t">>, <<"s", "e", "r", "v", "e">>, <<"d", "i", "e">>,
    <<"s", "e", "n", "d">>, <<"e", "x", "p", "e", "c", "t">>,
    <<"b", "u", "i", "l", "d">>, <<"s", "t", "a", "y">>,
    <<"f", "a", "l", "l">>, <<"c", "u", "t">>, <<"r", "e", "a", "c", "h">>,
    <<"k", "i", "l", "l">>, <<"r", "e", "m", "a", "i", "n">>,
    <<"s", "u", "g", "g", "e", "s", "t">>
>>

\* builtin.SENTENCES: each sentence is held as the number of its
\* whitespace-separated tokens (no sentence is empty or starts or ends with
\* a blank, so joining sentences with " " adds their token counts).
SENTENCES == <<
    9, 8, 6, 6, 7, 7, 9, 11, 9, 10, 13, 11, 10, 12, 11, 11, 13, 12,
    11, 12, 13, 15, 11, 12, 13
>>

\* The largest word_target of the explored generate_focus_text calls.
MaxWordTarget == 5

\* The weak_digraphs and problem_chars lists of the explored calls: what
\* Database.get_focus_data returns when the errors of the last sessions fell
\* on these letters.
FocusDigraphLists ==
    {<<>>, <<<<"m", "y">>>>, <<<<"m", "y">>, <<"b", "y">>>>, <<<<"t", "h">>>>}

FocusCharLists == {Take(<<"e", "a", "o", "i", "u">>, n) : n \in 0..5}

\* dg in word_l
Contains(word, dg) ==
    \E i \in 1..(Len(word) - Len(dg) + 1) :
        SubSeq(word, i, i + Len(dg) - 1) = dg

\* word_l.count(ch)
CountChar(word, ch) == Cardinality({i \in 1..Len(word) : word[i] = ch})

RECURSIVE DigraphScore(_, _)
DigraphScore(word, dgs) ==
    IF dgs = <<>> THEN 0
    ELSE (IF Contains(word, Head(dgs)) THEN 3 ELSE 0)
         + DigraphScore(word, Tail(dgs))

RECURSIVE CharScore(_, _)
CharScore(word, chs) ==
    IF chs = <<>> THEN 0
    ELSE CountChar(word, Head(chs)) + CharScore(word, Tail(chs))

\* focus._score_word
ScoreWord(word, dgs, chs) == DigraphScore(word, dgs) + CharScore(word, chs)

\* scored, after scored.sort(key=lambda x: -x[1]): the words of the pool
\* (as indices into COMMON_WORDS) with their scores, highest score first.
Scored(dgs, chs) ==
    SortByCountDesc([w \in 1..Len(COMMON_WORDS) |->
                        [key |-> w,
                         count |-> ScoreWord(COMMON_WORDS[w], dgs, chs)]]
                    \o <<>>)

\* The tests of the two list comprehensions of lines 63-64.
IsHigh(item) == item.count > 0
IsFiller(item) == item.count = 0

\* [w for w, s in items]
WordsOf(items) == [i \in 1..Len(items) |-> items[i].key]

\* Fault variant of the high share: 0.6 * word_target rounded up.
NHighRoundedUp(word_target) == (word_target * 6 + 9) \div 10

\* max(1, int(word_target * 0.6))
NHigh(word_target) ==
    IF (word_target * 6) \div 10 >= 1 THEN (word_target * 6) \div 10 ELSE 1

\* The values random.choice(pool) takes in the explored calls.
RandomChoices(pool) == {pool[1], pool[Len(pool)]}

\* The orders random.shuffle leaves a list in, in the explored calls: its
\* rotations.
Rotate(seq, k) ==
    [i \in 1..Len(seq) |-> seq[((i - 1 + k) % Len(seq)) + 1]]

\* " ".join(words) for words given as indices into COMMON_WORDS.
RECURSIVE JoinWords(_)
JoinWords(ws) ==
    IF ws = <<>> THEN <<>>
    ELSE IF Len(ws) = 1 THEN COMMON_WORDS[ws[1]]
    ELSE COMMON_WORDS[ws[1]] \o <<" ">> \o JoinWords(Tail(ws))

\* len(text.split()) for a text whose only whitespace is the blank.
TokenCount(str) ==
    Cardinality({i \in 1..Len(str) :
                    str[i] # " " /\ (i = 1 \/ str[i - 1] = " ")})

\* A generate_focus_text(dgs, chs, wt) call about to start.
FocusCall(dgs, chs, wt) ==
    [pc |-> "start", weak_digraphs |-> dgs, problem_chars |-> chs,
     word_target |-> wt, high |-> <<>>, filler |-> <<>>, n_high |-> 0,
     n_filler |-> 0, selected |-> <<>>, picked |-> 0, used |-> {},
     out |-> 0, tokens |-> 0]

\* Lines 47 and 58-71: the choice of the branch; high, filler and the two
\* sample sizes.
FocusStart ==
    /\ focus.pc = "start"
    /\ IF focus.weak_digraphs = <<>> /\ focus.problem_chars = <<>>
       THEN focus' = [focus EXCEPT !.pc = "fallback"]
       ELSE LET scored == Scored(focus.weak_digraphs, focus.problem_chars)
                high == WordsOf(SelectSeq(scored, IsHigh))
                filler == WordsOf(SelectSeq(scored, IsFiller))
            IN focus' = [focus EXCEPT
                           !.pc = "high",
                           !.high = IF high = <<>> THEN filler ELSE high,
                           !.filler = filler,
                           !.n_high = NHigh(focus.word_target),
                           !.n_filler = focus.word_target - NHigh(focus.word_target)]

\* One pass of the loop of lines 77-78.
FocusChooseHigh(w) ==
    /\ focus.pc = "high"
    /\ focus.high # <<>>
    /\ focus.picked < focus.n_high
    /\ w \in RandomChoices(focus.high)
    /\ focus' = [focus EXCEPT !.selected = Append(@, w), !.picked = @ + 1]

\* The loop of lines 76-78 is over, or skipped.
FocusHighDone ==
    /\ focus.pc = "high"
    /\ focus.high = <<>> \/ focus.picked = focus.n_high
    /\ focus' = [focus EXCEPT !.pc = "filler", !.picked = 0]

\* One pass of the loop of lines 80-81.
FocusChooseFiller(w) ==
    /\ focus.pc = "filler"
    /\ focus.filler # <<>>
    /\ focus.picked < focus.n_filler
    /\ w \in RandomChoices(focus.filler)
    /\ focus' = [focus EXCEPT !.selected = Append(@, w), !.picked = @ + 1]

\* The loop of lines 79-81 is over, or skipped.
FocusFillerDone ==
    /\ focus.pc = "filler"
    /\ focus.filler = <<>> \/ focus.picked >= focus.n_filler
    /\ focus' = [focus EXCEPT !.pc = "shuffle"]

\* Lines 84-85: random.shuffle(selected) and the returned text.
FocusReturn(k) ==
    /\ focus.pc = "shuffle"
    /\ k < Len(focus.selected) \/ k = 0
    /\ LET shuffled == IF focus.selected = <<>> THEN <<>>
                       ELSE Rotate(focus.selected, k)
           text_out == JoinWords(Take(shuffled, focus.word_target))
       IN focus' = [focus EXCEPT !.pc = "done", !.selected = shuffled,
                                 !.tokens = TokenCount(text_out)]

\* Lines 49-56: one pass of the loop over the shuffled sentences, taking
\* sentence s, and the returned text when the loop ends.
FocusFallbackTake(s) ==
    /\ focus.pc = "fallback"
    /\ s \notin focus.used
    /\ LET out == focus.out + SENTENCES[s]
           over == out >= focus.word_target
                   \/ focus.used \cup {s} = 1..Len(SENTENCES)
       IN focus' = [focus EXCEPT
                      !.used = @ \cup {s},
                      !.out = out,
                      !.pc = IF over THEN "done" ELSE "fallback",
                      !.tokens = IF over THEN Min(focus.word_target, out) ELSE 0]

InitFocus ==
    /\ EngineInit(AppText)
    /\ AppIdle
    /\ TimelineIdle /\ AnalyzerIdle /\ ContentIdle /\ StoresIdle
    /\ \E dgs \in FocusDigraphLists, chs \in FocusCharLists,
          wt \in 1..MaxWordTarget :
          focus = FocusCall(dgs, chs, wt)

NextFocus ==
    \/ FocusStart /\ UNCHANGED <<vars, appVars, timeline, analyzer, content, storeVars>>
    \/ \E w \in 1..Len(COMMON_WORDS) :
          FocusChooseHigh(w) /\ UNCHANGED <<vars, appVars, timeline, analyzer, content, storeVars>>
    \/ FocusHighDone /\ UNCHANGED <<vars, appVars, timeline, analyzer, content, storeVars>>
    \/ \E w \in 1..Len(COMMON_WORDS) :
          FocusChooseFiller(w) /\ UNCHANGED <<vars, appVars, timeline, analyzer, content, storeVars>>
    \/ FocusFillerDone /\ UNCHANGED <<vars, appVars, timeline, analyzer, content, storeVars>>
    \/ \E k \in 0..MaxWordTarget :
          FocusReturn(k) /\ UNCHANGED <<vars, appVars, timeline, analyzer, content, storeVars>>
    \/ \E s \in 1..Len(SENTENCES) :
          FocusFallbackTake(s) /\ UNCHANGED <<vars, appVars, timeline, analyzer, content, storeVars>>

SpecFocus == InitFocus /\ [][NextFocus]_focus

\* -------------------------------------------- claims on the focus text
\* C19: generate_focus_text returns exactly word_target tokens.
C19_FocusTextHasTargetTokens ==
    focus.pc = "done" => focus.tokens = focus.word_target

\* The number of entries of selected that are words of the list pool.
DrawnFrom(pool) ==
    Cardinality({i \in 1..Len(focus.selected) :
                    \E j \in 1..Len(pool) : pool[j] = focus.selected[i]})

\* Both samples were taken from a non-empty list, and high holds words
\* that score above 0 (it is not the filler list standing in for it).
BothSetsSampled ==
    /\ focus.pc \in {"shuffle", "done"}
    /\ focus.high # <<>>
    /\ focus.filler # <<>>
    /\ focus.high # focus.filler

\* The shares of the two lists in selected.
HighShareIs(n_high) ==
    BothSetsSampled =>
        /\ DrawnFrom(focus.high) = n_high
        /\ DrawnFrom(focus.filler) = focus.word_target - n_high

\* C31: with non-empty high and filler lists, ceil(0.6 * word_target)
\* words are drawn from the high list and the rest of word_target from the
\* filler list.
C31_HighShareIsCeiling ==
    HighShareIs((6 * focus.word_target + 9) \div 10)

\* C31, amended: the high list gives floor(0.6 * word_target) words, and
\* one word when that is 0; the filler list gives the rest of word_target.
C31_HighShareIsFloorOrOne ==
    HighShareIs(IF focus.word_target = 1 THEN 1
                ELSE (6 * focus.word_target) \div 10)

\* C31 witness: a call with word_target 4 has returned, two words drawn
\* from the high list and two from the filler list.
C31_Witness ==
    /\ focus.pc = "done"
    /\ BothSetsSampled
    /\ focus.word_target = 4
    /\ DrawnFrom(focus.high) = 2
    /\ DrawnFrom(focus.filler) = 2


\* ======================================================================
\* The built-in content: get_text of src/key4ce/content/builtin.py.  A text
\* is held as the number of its whitespace-separated tokens.
\* ======================================================================

\* builtin.QUOTES, CODE_SNIPPETS, NUMBERS: like SENTENCES, each item is
\* held as the number of its tokens.
QUOTES == <<
    15, 15, 9, 16, 18, 15, 10, 14, 8, 15, 13, 15, 17, 20, 23
>>

CODE_SNIPPETS == <<
    5, 7, 11, 8, 12, 11, 6, 3, 9, 10, 7, 8, 9, 3, 9, 9, 6, 9
>>

NUMBERS == <<
    20, 8, 8, 10, 8, 16, 15, 9
>>

\* The categories get_text has a branch for.
ContentCategories == {"words", "sentences", "quotes", "code", "numbers"}

\* The pool a category draws whole items from; an unknown category falls
\* back to the sentences.
Pool(category) ==
    CASE category = "quotes" -> QUOTES
      [] category = "code" -> CODE_SNIPPETS
      [] category = "numbers" -> NUMBERS
      [] OTHER -> SENTENCES

\* A get_text(category, word_target) call about to start.
ContentCall(category, wt) ==
    [pc |-> "loop", category |-> category, word_target |-> wt,
     words |-> 0, used |-> {}, tokens |-> 0, returned |-> 0]

\* Item s is the first unused item of its token count.  random.shuffle may
\* put any unused item next; items of equal token count lead to the same
\* token counts, so the first of them stands for all.
FirstOfItsSize(pool, used, s) ==
    \A r \in 1..(s - 1) : pool[r] = pool[s] => r \in used

\* category "words": one pass of `while len(words) < word_target`.
ContentExtendWords ==
    /\ content.pc = "loop"
    /\ content.category = "words"
    /\ content.words < content.word_target
    /\ content' = [content EXCEPT !.words = @ + Len(COMMON_WORDS)]

\* category "words": the loop is over, " ".join(words[:word_target]).
ContentReturnWords ==
    /\ content.pc = "loop"
    /\ content.category = "words"
    /\ content.words >= content.word_target
    /\ content' = [content EXCEPT
                     !.pc = "done",
                     !.returned = Min(content.word_target, content.words)]

\* The other categories: one pass of the for loop that appends item s.
ContentTake(s) ==
    /\ content.pc = "loop"
    /\ content.category # "words"
    /\ s \in 1..Len(Pool(content.category))
    /\ s \notin content.used
    /\ FirstOfItsSize(Pool(content.category), content.used, s)
    /\ content.tokens < content.word_target
    /\ content' = [content EXCEPT
                     !.used = @ \cup {s},
                     !.tokens = @ + Pool(content.category)[s]]

\* The other categories: the loop breaks on len(result.split()) >=
\* word_target, or the pool is used up; result is returned.
ContentReturn ==
    /\ content.pc = "loop"
    /\ content.category # "words"
    /\ \/ content.tokens >= content.word_target
       \/ content.used = 1..Len(Pool(content.category))
    /\ content' = [content EXCEPT !.pc = "done", !.returned = content.tokens]

InitContent ==
    /\ EngineInit(AppText)
    /\ AppIdle
    /\ TimelineIdle /\ AnalyzerIdle /\ FocusIdle /\ StoresIdle
    /\ \E category \in ContentCategories, i \in 1..Len(WORD_TARGETS) :
          content = ContentCall(category, WORD_TARGETS[i])

NextContent ==
    \/ ContentExtendWords /\ UNCHANGED <<vars, appVars, timeline, analyzer, focus, storeVars>>
    \/ ContentReturnWords /\ UNCHANGED <<vars, appVars, timeline, analyzer, focus, storeVars>>
    \/ \E s \in 1..Len(SENTENCES) :
          ContentTake(s) /\ UNCHANGED <<vars, appVars, timeline, analyzer, focus, storeVars>>
    \/ ContentReturn /\ UNCHANGED <<vars, appVars, timeline, analyzer, focus, storeVars>>

SpecContent == InitContent /\ [][NextContent]_content

\* ------------------------------------------ claims on the built-in content
\* C20: for the word targets of the menu, get_text("words", n) returns
\* exactly n tokens and every other category returns at least n tokens.
C20_TextReachesWordTarget ==
    content.pc = "done" =>
        IF content.category = "words"
        THEN content.returned = content.word_target
        ELSE content.returned >= content.word_target


\* ======================================================================
\* The session store: Database of src/key4ce/data/db.py.  A real number is
\* an integer count of thousandths (41.235 is 41235); a string is a
\* sequence of characters; a dict is a sequence of <<key, value>> pairs in
\* insertion order; the two TEXT columns hold JSON text, character by
\* character.
\* ======================================================================

\* Number of save_session calls explored.
MaxSaves == 2

\* LIMIT 10 of get_stats.
RecentLimit == 10

\* most_common(5) of get_focus_data.
FocusLimit == 5

\* timings=None
NoTimings == <<-1>>

KeyExpected == <<"e", "x", "p", "e", "c", "t", "e", "d">>
KeyGot == <<"g", "o", "t">>

\* One entry of an error log: {"expected": e, "got": g}.
ErrorEntry(e, g) == <<(<<KeyExpected, <<e>>>>), (<<KeyGot, <<g>>>>)>>

\* The error logs saved: none; three misses, two of them on the same
\* character, one on a quote and one typed as a backslash; seven misses on
\* different characters.
DbErrorLogs ==
    {<<>>,
     <<ErrorEntry("a", "b"), ErrorEntry("\"", "\\"), ErrorEntry("a", "b")>>,
     <<ErrorEntry("c", "x"), ErrorEntry("d", "x"), ErrorEntry("e", "x"),
       ErrorEntry("f", "x"), ErrorEntry("g", "x"), ErrorEntry("h", "x"),
       ErrorEntry("a", "x")>>}

\* source, wpm, accuracy, duration, chars_typed and timings of the sessions
\* saved.  40.125 and 40.375 lie exactly between two hundredths; 40.124 and
\* 40.125 are stored as the same wpm; one session is saved without the
\* timings argument.
DbScores ==
    {[source |-> "words", wpm |-> 40125, accuracy |-> 100000,
      duration |-> 12375, chars_typed |-> 5, timings |-> <<7>>],
     [source |-> "words", wpm |-> 40375, accuracy |-> 66667,
      duration |-> 60000, chars_typed |-> 50, timings |-> <<120, 0, 35>>],
     [source |-> "words", wpm |-> 40124, accuracy |-> 99996,
      duration |-> 7, chars_typed |-> 1, timings |-> NoTimings],
     [source |-> "quotes", wpm |-> 40121, accuracy |-> 0,
      duration |-> 0, chars_typed |-> 0, timings |-> <<>>]}

DbSources == {"words", "quotes", "code"}

\* Fault variant of round(x, 2): the value is stored as it is.
RoundKeep(n, d) == n \div d

\* round(n / d, 2) for n / d >= 0 in thousandths: the nearest hundredth, the
\* even one of the two when n / d lies exactly between them.
Round2(n, d) ==
    LET q == n \div (10 * d)
        r == n - q * 10 * d
    IN 10 * (IF 2 * r > 10 * d \/ (2 * r = 10 * d /\ q % 2 = 1)
             THEN q + 1 ELSE q)

\* ------------------------------------------------------------------ json
Digits == <<"0", "1", "2", "3", "4", "5", "6", "7", "8", "9">>

\* The items of a list joined by ", " between "[" and "]".
RECURSIVE JoinItems(_)
JoinItems(items) ==
    IF items = <<>> THEN <<>>
    ELSE IF Len(items) = 1 THEN items[1]
    ELSE items[1] \o <<",", " ">> \o JoinItems(Tail(items))

\* json.dumps of a non-negative int.
RECURSIVE DumpsInt(_)
DumpsInt(n) ==
    IF n < 10 THEN <<Digits[n + 1]>>
    ELSE DumpsInt(n \div 10) \o <<Digits[(n % 10) + 1]>>

\* json.dumps of a str: quotes around it, a backslash before every quote
\* and backslash inside it.
RECURSIVE DumpsChars(_)
DumpsChars(str) ==
    IF str = <<>> THEN <<>>
    ELSE (IF Head(str) \in {"\"", "\\"} THEN <<"\\", Head(str)>>
          ELSE <<Head(str)>>) \o DumpsChars(Tail(str))

DumpsString(str) == <<"\"">> \o DumpsChars(str) \o <<"\"">>

\* json.dumps of a list of ints.
DumpsTimings(ts) ==
    <<"[">> \o JoinItems([i \in 1..Len(ts) |-> DumpsInt(ts[i])]) \o <<"]">>

\* json.dumps of a list of dicts whose keys and values are strings.
DumpsErrors(es) ==
    LET pair(kv) == DumpsString(kv[1]) \o <<":", " ">> \o DumpsString(kv[2])
        dict(e) == <<"{">> \o JoinItems([i \in 1..Len(e) |-> pair(e[i])])
                   \o <<"}">>
    IN <<"[">> \o JoinItems([i \in 1..Len(es) |-> dict(es[i])]) \o <<"]">>

\* json.loads from position i of text s on: the value that starts there and
\* the position behind it.  `open` tells which value is being read: ""
\* before a value, "str" inside a string, "int" inside a number, "[" and
\* "{" inside a list and a dict; acc is the part of it read so far.
RECURSIVE Loads(_, _, _, _)
Loads(s, i, open, acc) ==
    CASE open = "" ->
           IF s[i] = "\"" THEN Loads(s, i + 1, "str", <<>>)
           ELSE IF s[i] = "[" THEN Loads(s, i + 1, "[", <<>>)
           ELSE IF s[i] = "{" THEN Loads(s, i + 1, "{", <<>>)
           ELSE Loads(s, i, "int", 0)
      [] open = "str" ->
           IF s[i] = "\"" THEN [val |-> acc, next |-> i + 1]
           ELSE IF s[i] = "\\"
                THEN Loads(s, i + 2, "str", Append(acc, s[i + 1]))
                ELSE Loads(s, i + 1, "str", Append(acc, s[i]))
      [] open = "int" ->
           IF i <= Len(s) /\ \E d \in 1..10 : Digits[d] = s[i]
           THEN Loads(s, i + 1, "int",
                      10 * acc + (CHOOSE d \in 1..10 : Digits[d] = s[i]) - 1)
           ELSE [val |-> acc, next |-> i]
      [] open = "[" ->
           IF s[i] = "]" THEN [val |-> acc, next |-> i + 1]
           ELSE IF s[i] = "," THEN Loads(s, i + 2, "[", acc)
           ELSE LET item == Loads(s, i, "", <<>>)
                IN Loads(s, item.next, "[", Append(acc, item.val))
      [] open = "{" ->
           IF s[i] = "}" THEN [val |-> acc, next |-> i + 1]
           ELSE IF s[i] = "," THEN Loads(s, i + 2, "{", acc)
           ELSE LET k == Loads(s, i, "", <<>>)
                    v == Loads(s, k.next + 2, "", <<>>)
                IN Loads(s, v.next, "{", Append(acc, <<k.val, v.val>>))

\* json.loads(s)
JsonLoads(s) == Loads(s, 1, "", <<>>).val

\* e.get(key, "") on a dict.
DictGet(e, k) ==
    IF \E i \in 1..Len(e) : e[i][1] = k
    THEN e[CHOOSE i \in 1..Len(e) : e[i][1] = k][2]
    ELSE <<>>

\* ------------------------------------------------------------- Database
\* Database.connect on a new file: an empty sessions table.
DbOpen == [pc |-> "open", rows |-> <<>>, args |-> <<>>, op |-> "connect",
           arg |-> "", out |-> <<>>]

\* The row save_session inserts: AUTOINCREMENT gives it the next id.
NewRow(id, a) ==
    [id |-> id,
     source |-> a.source,
     wpm |-> Round2(a.wpm, 1),
     accuracy |-> Round2(a.accuracy, 1),
     duration |-> Round2(a.duration, 1),
     chars_typed |-> a.chars_typed,
     errors |-> DumpsErrors(a.errors),
     timings |-> DumpsTimings(IF a.timings = NoTimings THEN <<>>
                              ELSE a.timings)]

\* Database.save_session; the call returns lastrowid.
SaveSession(a) ==
    /\ db.pc = "open"
    /\ Len(db.rows) < MaxSaves
    /\ db' = [db EXCEPT !.rows = Append(@, NewRow(Len(@) + 1, a)),
                        !.args = Append(@, a),
                        !.op = "save_session",
                        !.arg = "",
                        !.out = Len(db.rows) + 1]

\* Database._row_to_record
RowToRecord(row) ==
    [id |-> row.id,
     source |-> row.source,
     wpm |-> row.wpm,
     accuracy |-> row.accuracy,
     duration |-> row.duration,
     chars_typed |-> row.chars_typed,
     errors |-> JsonLoads(row.errors),
     timings |-> IF row.timings # <<>> THEN JsonLoads(row.timings) ELSE <<>>]

\* Fault variant of ORDER BY id DESC LIMIT n: the oldest n rows.
FirstRows(rows, n) ==
    [i \in 1..Min(n, Len(rows)) |-> rows[i]] \o <<>>

\* SELECT ... ORDER BY id DESC LIMIT n
LastRows(rows, n) ==
    [i \in 1..Min(n, Len(rows)) |-> rows[Len(rows) - i + 1]] \o <<>>

\* Database.get_stats
GetStats ==
    /\ db.pc = "open"
    /\ LET n == Len(db.rows)
           wpms == [i \in 1..n |-> db.rows[i].wpm]
           accs == [i \in 1..n |-> db.rows[i].accuracy]
           best == IF n = 0 THEN 0
                   ELSE CHOOSE w \in {wpms[i] : i \in 1..n} :
                            \A i \in 1..n : wpms[i] <= w
           recent == LastRows(db.rows, RecentLimit)
       IN db' = [db EXCEPT
                   !.op = "get_stats",
                   !.arg = "",
                   !.out = [total_sessions |-> n,
                            best_wpm |-> Round2(best, 1),
                            avg_wpm |-> IF n = 0 THEN 0
                                        ELSE Round2(SumSeq(wpms), n),
                            avg_accuracy |-> IF n = 0 THEN 0
                                             ELSE Round2(SumSeq(accs), n),
                            recent_sessions |->
                                [i \in 1..Len(recent) |->
                                    RowToRecord(recent[i])]]]

\* Fault variant of ORDER BY wpm DESC LIMIT 1: the rows of the source in
\* any order.
AnyRows(rows, source) ==
    {i \in 1..Len(rows) : rows[i].source = source}

\* WHERE source = ? ORDER BY wpm DESC LIMIT 1: the rows the query may
\* return, one of those with the highest wpm (SQL leaves the order of rows
\* with equal wpm open).
BestRows(rows, source) ==
    {i \in 1..Len(rows) :
        /\ rows[i].source = source
        /\ \A j \in 1..Len(rows) :
              rows[j].source = source => rows[j].wpm <= rows[i].wpm}

\* Database.get_ghost_timings(source)
GetGhostTimings(source) ==
    /\ db.pc = "open"
    /\ \E out \in IF BestRows(db.rows, source) = {} THEN {<<>>}
                  ELSE {IF db.rows[i].timings # <<>>
                        THEN JsonLoads(db.rows[i].timings) ELSE <<>> :
                        i \in BestRows(db.rows, source)} :
          db' = [db EXCEPT !.op = "get_ghost_timings", !.arg = source,
                           !.out = out]

\* Counter: the keys counted in the order given.
RECURSIVE CounterOf(_, _)
CounterOf(keys, counter) ==
    IF keys = <<>> THEN counter
    ELSE CounterOf(Tail(keys), DictIncrement(counter, Head(keys)))

\* The lists of the rows, one behind the other.
RECURSIVE Chain(_)
Chain(lists) ==
    IF lists = <<>> THEN <<>> ELSE Head(lists) \o Chain(Tail(lists))

\* The keys the first loop of get_focus_data counts for one row: the
\* expected strings of one character.
MissedChars(row) ==
    LET errs == JsonLoads(row.errors)
        expected == [i \in 1..Len(errs) |-> DictGet(errs[i], KeyExpected)]
    IN SelectSeq(expected, LAMBDA e : e # <<>> /\ Len(e) = 1)

\* The keys the second loop of get_focus_data counts for one row.
MissedDigraphs(row) ==
    LET errs == JsonLoads(row.errors)
        expected == [i \in 1..Len(errs) |-> DictGet(errs[i], KeyExpected)]
        chars == SelectSeq(expected, LAMBDA e : e # <<>>)
    IN [i \in 1..(Len(chars) - 1) |-> chars[i] \o chars[i + 1]]

\* [key for key, _ in counter.most_common(limit)]
MostCommon(counter, limit) ==
    LET top == Take(SortByCountDesc(counter), limit)
    IN [i \in 1..Len(top) |-> top[i].key]

\* Database.get_focus_data(n_sessions)
GetFocusData(n_sessions) ==
    /\ db.pc = "open"
    /\ LET rows == LastRows(db.rows, n_sessions)
           char_errors ==
               CounterOf(Chain([i \in 1..Len(rows) |-> MissedChars(rows[i])]),
                         <<>>)
           digraph_errors ==
               CounterOf(Chain([i \in 1..Len(rows) |->
                                   MissedDigraphs(rows[i])]), <<>>)
       IN db' = [db EXCEPT
                   !.op = "get_focus_data",
                   !.arg = n_sessions,
                   !.out = [weak_digraphs |->
                                MostCommon(digraph_errors, FocusLimit),
                            problem_chars |->
                                MostCommon(char_errors, FocusLimit)]]

\* The sessions handed to save_session.
DbSessions ==
    {[source |-> sc.source, wpm |-> sc.wpm, accuracy |-> sc.accuracy,
      duration |-> sc.duration, chars_typed |-> sc.chars_typed,
      errors |-> es, timings |-> sc.timings] :
        sc \in DbScores, es \in DbErrorLogs}

InitDb ==
    /\ EngineInit(AppText)
    /\ AppIdle
    /\ TimelineIdle /\ AnalyzerIdle /\ FocusIdle /\ ContentIdle
    /\ db = DbOpen
    /\ loader = [pc |-> "idle"]
    /\ store = [pc |-> "idle"]

NextDb ==
    \/ \E a \in DbSessions :
          SaveSession(a) /\ UNCHANGED <<vars, appVars, timeline, analyzer, focus, content, loader, store>>
    \/ GetStats /\ UNCHANGED <<vars, appVars, timeline, analyzer, focus, content, loader, store>>
    \/ \E source \in DbSources :
          GetGhostTimings(source) /\ UNCHANGED <<vars, appVars, timeline, analyzer, focus, content, loader, store>>
    \/ \E n \in 1..(MaxSaves + 1) :
          GetFocusData(n) /\ UNCHANGED <<vars, appVars, timeline, analyzer, focus, content, loader, store>>

SpecDb == InitDb /\ [][NextDb]_db

\* ------------------------------------------- claims on the session store
\* y is x rounded to 2 decimals: a whole number of hundredths at most half
\* a hundredth away from x.
IsRounded2(x, y) == y % 10 = 0 /\ x - y <= 5 /\ y - x <= 5

\* The timings list a save_session call handed over.
SavedTimings(a) == IF a.timings = NoTimings THEN <<>> ELSE a.timings

\* C21: every record get_stats().recent_sessions returns has the
\* chars_typed, the errors list and the timings list of the save_session
\* call that stored it, and its wpm, accuracy and duration are the saved
\* values rounded to 2 decimals; every saved session is among them; and a
\* later save leaves every stored row as it was.
C21_SaveReadRoundTrip ==
    /\ [](db.op = "get_stats" =>
            /\ {db.out.recent_sessions[j].id :
                   j \in 1..Len(db.out.recent_sessions)} = 1..Len(db.args)
            /\ \A j \in 1..Len(db.out.recent_sessions) :
                  LET rec == db.out.recent_sessions[j]
                      a == db.args[rec.id]
                  IN /\ rec.chars_typed = a.chars_typed
                     /\ rec.errors = a.errors
                     /\ rec.timings = SavedTimings(a)
                     /\ IsRounded2(a.wpm, rec.wpm)
                     /\ IsRounded2(a.accuracy, rec.accuracy)
                     /\ IsRounded2(a.duration, rec.duration))
    /\ [][\A i \in 1..Len(db.rows) : db.rows'[i] = db.rows[i]]_db

\* C21 witness: two sessions read back; the older one was saved with
\* wpm 40.125 and an error log holding a quote and a backslash and comes
\* back with wpm 40.12 and the same log; the newer one was saved without
\* the timings argument and comes back with an empty timings list.
C21_Witness ==
    /\ db.op = "get_stats"
    /\ Len(db.args) = 2
    /\ db.args[1].wpm = 40125
    /\ Len(db.args[1].errors) = 3
    /\ db.args[2].timings = NoTimings
    /\ db.out.recent_sessions[1].id = 2
    /\ db.out.recent_sessions[1].timings = <<>>
    /\ db.out.recent_sessions[2].id = 1
    /\ db.out.recent_sessions[2].wpm = 40120
    /\ db.out.recent_sessions[2].timings = <<7>>
    /\ db.out.recent_sessions[2].errors[2] = ErrorEntry("\"", "\\")

\* C22: get_ghost_timings(source) returns the timings list saved with a
\* session of that source whose stored wpm is the highest of that source,
\* and the empty list when no session has that source.
C22_GhostFromBestSession ==
    db.op = "get_ghost_timings" =>
        LET mine == {i \in 1..Len(db.args) : db.args[i].source = db.arg}
        IN IF mine = {} THEN db.out = <<>>
           ELSE \E i \in mine :
                   /\ \A j \in mine : db.rows[j].wpm <= db.rows[i].wpm
                   /\ db.out = SavedTimings(db.args[i])

\* C22 witness: two sessions of the source asked for; the older one is the
\* faster one and its timings are returned.
C22_Witness ==
    /\ db.op = "get_ghost_timings"
    /\ Len(db.args) = 2
    /\ db.args[1].source = db.arg /\ db.args[2].source = db.arg
    /\ db.args[1].wpm > db.args[2].wpm
    /\ db.args[1].timings = <<120, 0, 35>>
    /\ db.args[2].timings = <<7>>
    /\ db.out = <<120, 0, 35>>

\* The sessions get_focus_data(n) is to use: the n saved last.
RecentSaves(n) == {i \in 1..Len(db.args) : i > Len(db.args) - n}

\* The places <<session, index>> of the error logs of those sessions where
\* the character c was expected, and where the digraph dg was expected at
\* two entries next to each other.
MissPlaces(n, c) ==
    {<<i, k>> \in RecentSaves(n) \X (1..7) :
        /\ k <= Len(db.args[i].errors)
        /\ DictGet(db.args[i].errors[k], KeyExpected) = c}

DigraphPlaces(n, dg) ==
    {<<i, k>> \in RecentSaves(n) \X (1..7) :
        /\ k < Len(db.args[i].errors)
        /\ DictGet(db.args[i].errors[k], KeyExpected)
             \o DictGet(db.args[i].errors[k + 1], KeyExpected) = dg}

\* C23: get_focus_data(n) returns at most 5 problem characters and at most
\* 5 weak digraphs; each list is without repetition and ordered by
\* descending count, the counts being taken over the error logs of the n
\* sessions saved last only; every problem character was missed in one of
\* those sessions and every weak digraph stands at two neighbouring entries
\* of the error log of one of those sessions.
C23_FocusFromRecentErrors ==
    db.op = "get_focus_data" =>
        LET n == db.arg
            chars == db.out.problem_chars
            dgs == db.out.weak_digraphs
        IN /\ Len(chars) <= 5 /\ Len(dgs) <= 5
           /\ \A k \in 1..Len(chars) :
                 /\ MissPlaces(n, chars[k]) # {}
                 /\ \A m \in 1..Len(chars) :
                       /\ k < m =>
                            Cardinality(MissPlaces(n, chars[k]))
                               >= Cardinality(MissPlaces(n, chars[m]))
                       /\ k # m => chars[k] # chars[m]
           /\ \A k \in 1..Len(dgs) :
                 /\ DigraphPlaces(n, dgs[k]) # {}
                 /\ \A m \in 1..Len(dgs) :
                       /\ k < m =>
                            Cardinality(DigraphPlaces(n, dgs[k]))
                               >= Cardinality(DigraphPlaces(n, dgs[m]))
                       /\ k # m => dgs[k] # dgs[m]

\* C23 witness: get_focus_data(1) after two saves; the older session missed
\* "a" twice, the newer one missed seven different characters, and the
\* five characters returned are the first five of the newer session.
C23_Witness ==
    /\ db.op = "get_focus_data"
    /\ db.arg = 1
    /\ Len(db.args) = 2
    /\ Len(db.args[1].errors) = 3
    /\ Len(db.args[2].errors) = 7
    /\ db.out.problem_chars = <<(<<"c">>), <<"d">>, <<"e">>, <<"f">>, <<"g">>>>
    /\ Len(db.out.weak_digraphs) = 5


\* ======================================================================
\* The external texts: src/key4ce/content/loader.py and App._load_text of
\* src/key4ce/ui/app.py.  A fetched text is <<n, length>>: the text of the
\* n-th network request, with its length after _clean.
\* ======================================================================

\* Number of get_external_text and _load_text calls explored.
MaxFetches == 2

\* len(extract) < 40 and len(text) < 40 of fetch_wikipedia.
MinWikipediaLen == 40

\* len(text) < 20 of fetch_quote.
MinQuoteLen == 20

\* No cache file.
NoFile == <<>>

\* EXTERNAL_CATEGORIES
EXTERNAL_CATEGORIES == {"wikipedia", "quote"}

\* The categories _load_text is called with.
LoadCategories == EXTERNAL_CATEGORIES \cup {"focus", "sentences"}

\* What a request can bring back.  fails: the request or the decoding of
\* its body raises.  shape: the JSON value is null, a number, an empty
\* list, a list whose first item is a number, or a dict / a list whose
\* first item is a dict.  text: the "extract" / "content" entry of that
\* dict is absent, null or a string of `raw` characters that _clean turns
\* into `clean` characters.
Response(fails, shape, entry, raw, clean) ==
    [fails |-> fails, shape |-> shape, text |-> entry, raw |-> raw,
     clean |-> clean]

Responses ==
    {Response(f, "none", "absent", 0, 0) : f \in {"network", "not_json"}}
    \cup {Response("", sh, "absent", 0, 0) :
             sh \in {"none", "number", "empty_list", "list_of_number"}}
    \cup {Response("", sh, t, 0, 0) :
             sh \in {"dict", "list"}, t \in {"absent", "null"}}
    \cup {Response("", sh, "str", len[1], len[2]) :
             sh \in {"dict", "list"},
             len \in {<<0, 0>>, <<30, 19>>, <<30, 30>>, <<45, 39>>, <<45, 45>>}}

\* What a call returns: None, a text, or an exception that leaves the call.
ReturnsNone == [kind |-> "none", text |-> <<>>]
Returns(t) == [kind |-> "text", text |-> t]
Raises == [kind |-> "raises", text |-> <<>>]

\* _fetch_json: None when the request or json.loads raises.
FetchJson(resp) ==
    IF resp.fails # "" THEN Response("", "none", "absent", 0, 0) ELSE resp

\* _cache_get(key): _cache_path raises when the cache directory cannot be
\* made; a file that cannot be read gives None.
CacheGet(ld, cache_key, read_ok) ==
    IF ~ld.dir_ok THEN Raises
    ELSE IF ld.cache[cache_key] # NoFile /\ read_ok
         THEN Returns(ld.cache[cache_key])
         ELSE ReturnsNone

\* _cache_set(key, value): the files after the call; every exception is
\* swallowed.
CacheSet(ld, cache_key, value, write_ok) ==
    IF ld.dir_ok /\ write_ok
    THEN [ld.cache EXCEPT ![cache_key] = value]
    ELSE ld.cache

\* The outcome of a fetch: what it returns, whether it made a request, and
\* the cache files after it.
Outcome(out, requested, cache) ==
    [out |-> out, requested |-> requested, cache |-> cache]

\* fetch_wikipedia(use_cache)
FetchWikipedia(ld, use_cache, resp, read_ok, write_ok) ==
    LET cached == IF use_cache THEN CacheGet(ld, "wikipedia", read_ok)
                  ELSE ReturnsNone
        data == FetchJson(resp)
        fetched == <<ld.nreq + 1, data.clean>>
    IN IF cached.kind # "none" THEN Outcome(cached, FALSE, ld.cache)
       ELSE IF data.shape # "dict" THEN Outcome(ReturnsNone, TRUE, ld.cache)
       ELSE IF data.text = "null" THEN Outcome(Raises, TRUE, ld.cache)
       ELSE IF data.text = "absent" \/ data.raw < MinWikipediaLen
            THEN Outcome(ReturnsNone, TRUE, ld.cache)
       ELSE IF data.clean < MinWikipediaLen
            THEN Outcome(ReturnsNone, TRUE, ld.cache)
       ELSE Outcome(Returns(fetched), TRUE,
                    CacheSet(ld, "wikipedia", fetched, write_ok))

\* fetch_quote(use_cache)
FetchQuote(ld, use_cache, resp, read_ok, write_ok) ==
    LET cached == IF use_cache THEN CacheGet(ld, "quote", read_ok)
                  ELSE ReturnsNone
        data == FetchJson(resp)
        fetched == <<ld.nreq + 1, data.clean>>
    IN IF cached.kind # "none" THEN Outcome(cached, FALSE, ld.cache)
       ELSE IF data.shape \in {"none", "empty_list", "number"}
            THEN Outcome(ReturnsNone, TRUE, ld.cache)
       ELSE IF data.shape = "list_of_number"
            THEN Outcome(Raises, TRUE, ld.cache)
       ELSE IF data.text # "str" \/ data.raw = 0
            THEN Outcome(ReturnsNone, TRUE, ld.cache)
       ELSE IF data.clean < MinQuoteLen
            THEN Outcome(ReturnsNone, TRUE, ld.cache)
       ELSE Outcome(Returns(fetched), TRUE,
                    CacheSet(ld, "quote", fetched, write_ok))

\* get_external_text(source, bust_cache), as an outcome.
ExternalText(ld, source, bust_cache, resp, read_ok, write_ok) ==
    IF source = "wikipedia"
    THEN FetchWikipedia(ld, ~bust_cache, resp, read_ok, write_ok)
    ELSE IF source = "quote"
         THEN FetchQuote(ld, ~bust_cache, resp, read_ok, write_ok)
         ELSE Outcome(ReturnsNone, FALSE, ld.cache)

\* The loader before the first call: no cache file; the cache directory
\* can be made (dir_ok) or cannot.
LoaderReady(dir_ok) ==
    [pc |-> "ready", dir_ok |-> dir_ok,
     cache |-> [k \in EXTERNAL_CATEGORIES |-> NoFile],
     nreq |-> 0, calls |-> 0,
     last |-> [fn |-> "", source |-> "", use_cache |-> FALSE,
               resp |-> Response("", "none", "absent", 0, 0),
               had |-> NoFile, read_failed |-> FALSE, write_failed |-> FALSE,
               requested |-> FALSE, out |-> ReturnsNone]]

\* The record of a call and the loader after it.
AfterCall(fn, source, use_cache, resp, read_ok, write_ok, o) ==
    [loader EXCEPT
       !.cache = o.cache,
       !.nreq = IF o.requested THEN @ + 1 ELSE @,
       !.calls = @ + 1,
       !.last = [fn |-> fn, source |-> source, use_cache |-> use_cache,
                 resp |-> resp,
                 had |-> IF source \in EXTERNAL_CATEGORIES
                         THEN loader.cache[source] ELSE NoFile,
                 read_failed |->
                     /\ use_cache
                     /\ source \in EXTERNAL_CATEGORIES
                     /\ \/ ~loader.dir_ok
                        \/ loader.cache[source] # NoFile /\ ~read_ok,
                 write_failed |-> ~(loader.dir_ok /\ write_ok),
                 requested |-> o.requested,
                 out |-> o.out]]

\* get_external_text(source, bust_cache)
GetExternalText(source, bust_cache, resp, read_ok, write_ok) ==
    /\ loader.pc = "ready"
    /\ loader.calls < MaxFetches
    /\ loader' = AfterCall("get_external_text", source, ~bust_cache, resp,
                           read_ok, write_ok,
                           ExternalText(loader, source, bust_cache, resp,
                                        read_ok, write_ok))

\* App._load_text(category, word_target): the focus text, the text of an
\* external source or the built-in sentences in its place, or a built-in
\* text; <<0, 0>> stands for a generated text.
LoadText(category, resp, write_ok) ==
    /\ loader.pc = "ready"
    /\ loader.calls < MaxFetches
    /\ LET o == ExternalText(loader, category, TRUE, resp, TRUE, write_ok)
           generated == Outcome(Returns(<<0, 0>>), FALSE, loader.cache)
       IN loader' =
             AfterCall("load_text", category, FALSE, resp, TRUE, write_ok,
                       IF category = "focus" THEN generated
                       ELSE IF category \in EXTERNAL_CATEGORIES
                            THEN IF o.out.kind = "none"
                                 THEN Outcome(Returns(<<0, 0>>), o.requested,
                                              o.cache)
                                 ELSE o
                            ELSE generated)

InitLoader ==
    /\ EngineInit(AppText)
    /\ AppIdle
    /\ TimelineIdle /\ AnalyzerIdle /\ FocusIdle /\ ContentIdle
    /\ db = [pc |-> "idle"]
    /\ store = [pc |-> "idle"]
    /\ \E dir_ok \in BOOLEAN : loader = LoaderReady(dir_ok)

NextLoader ==
    \/ \E source \in EXTERNAL_CATEGORIES, bust_cache \in BOOLEAN,
          resp \in Responses, read_ok \in BOOLEAN, write_ok \in BOOLEAN :
          /\ GetExternalText(source, bust_cache, resp, read_ok, write_ok)
          /\ UNCHANGED <<vars, appVars, timeline, analyzer, focus, content, db, store>>
    \/ \E category \in LoadCategories, resp \in Responses,
          write_ok \in BOOLEAN :
          /\ LoadText(category, resp, write_ok)
          /\ UNCHANGED <<vars, appVars, timeline, analyzer, focus, content, db, store>>

SpecLoader == InitLoader /\ [][NextLoader]_loader

\* ----------------------------------------- claims on the external texts
\* The response gives the source no text it can use: the request or the
\* decoding failed, or the text is missing (no dict, no entry, a null
\* entry) or too short.
FetchFails(source, resp) ==
    \/ resp.fails # ""
    \/ resp.shape \notin {"dict", "list"}
    \/ source = "wikipedia" /\ resp.shape # "dict"
    \/ resp.text # "str"
    \/ resp.clean < (IF source = "wikipedia" THEN MinWikipediaLen
                     ELSE MinQuoteLen)
    \/ source = "wikipedia" /\ resp.raw < MinWikipediaLen

\* C24: a fetch whose request failed or brought no usable text returns
\* None, and _load_text always returns a text.
C24_FetchFailureFallsBack ==
    /\ (/\ loader.last.fn = "get_external_text"
        /\ loader.last.requested
        /\ FetchFails(loader.last.source, loader.last.resp))
           => loader.last.out.kind = "none"
    /\ loader.last.fn = "load_text" => loader.last.out.kind = "text"

\* C25: a fetch with use_cache that finds a cache file and can read it
\* returns the file's text without a request; a fetch that returned a text
\* and could write the cache left that text in the cache file; a fetch
\* whose cache read fails goes on to the request like a miss; and a fetch
\* whose request brought a usable text returns it even if the cache write
\* fails.
C25_CacheServesLaterFetches ==
    loader.last.fn = "get_external_text" =>
        /\ (/\ loader.last.use_cache
            /\ loader.last.had # NoFile
            /\ ~loader.last.read_failed)
               => /\ loader.last.out = Returns(loader.last.had)
                  /\ ~loader.last.requested
        /\ (/\ loader.last.requested
            /\ loader.last.out.kind = "text"
            /\ ~loader.last.write_failed)
               => loader.cache[loader.last.source] = loader.last.out.text
        /\ loader.last.read_failed => loader.last.requested
        /\ (/\ loader.last.requested
            /\ ~FetchFails(loader.last.source, loader.last.resp))
               => loader.last.out.kind = "text"


\* ======================================================================
\* The typing engine again: the combo counters and TypingEngine.reset.
\* ======================================================================

\* The number of correct keystrokes at the end of the timeline ks, behind
\* its last incorrect one.
TrailingCorrect(ks) ==
    Cardinality({i \in 1..Len(ks) : \A j \in i..Len(ks) : ks[j].is_correct})

\* The step records an incorrect keystroke: process_key went through
\* _handle_incorrect.
IncorrectStep ==
    /\ Len(keystrokes') = Len(keystrokes) + 1
    /\ ~Last(keystrokes').is_correct

\* C26: in every state max_combo >= combo and combo is the number of
\* correct keystrokes recorded since the last incorrect one; an incorrect
\* key sets combo to 0; and no step lowers max_combo.
C26_ComboCountsCorrectRun ==
    /\ [](max_combo >= combo /\ combo = TrailingCorrect(keystrokes))
    /\ [][IncorrectStep => combo' = 0]_vars
    /\ [][max_combo' >= max_combo]_vars

\* C26 witness: two correct keys (a backspace between or behind them), then
\* an incorrect one: the combo is back at 0 and max_combo is still 2.
C26_Witness ==
    /\ max_combo = 2
    /\ combo = 0
    /\ Len(keystrokes) = 3
    /\ ~Last(keystrokes).is_correct
    /\ calls = 4

\* C27: a step calls on_combo_break exactly when it records an incorrect
\* keystroke while combo > 0, once and with the combo held before the
\* step; every other step (an incorrect key at combo 0, a correct key, a
\* backspace, a key after the text is complete) makes no call.
C27_ComboBreakOncePerBreak ==
    [][IF IncorrectStep /\ combo > 0
       THEN combo_breaks' = Append(combo_breaks, combo)
       ELSE combo_breaks' = combo_breaks]_vars

\* C27 witness: one call so far, with combo 1, and a second incorrect key
\* after it that made no call.
C27_Witness ==
    /\ combo_breaks = <<1>>
    /\ errors = 2
    /\ combo = 0

NoNewText == <<"None">>

\* The new_text arguments of reset: none, the empty text, another text.
ResetArgs == {NoNewText, <<>>, <<" ", "a">>}

\* A text long enough for the first combo milestone.
LongText == [i \in 1..11 |-> "a"]

\* The engine on text t after its first n characters were typed without a
\* mistake, all at clock value 1.
EngineAfterRun(t, n) ==
    /\ text = t
    /\ position = n
    /\ errors = 0
    /\ correct = n
    /\ start_time = 1
    /\ last_keystroke_time = 1
    /\ combo = n
    /\ max_combo = n
    /\ keystrokes = [i \in 1..n |->
                        [char |-> t[i], expected |-> t[i], timestamp |-> 1,
                         is_correct |-> TRUE, position |-> i - 1,
                         wpm_at_time |-> <<0, 1>>]]
    /\ error_positions = {}
    /\ achieved_combo_milestones = {m \in ComboMilestones : m <= n}
    /\ keystroke_events = keystrokes
    /\ combo_breaks = <<>>
    /\ milestone_events = MilestoneCalls({m \in ComboMilestones : m <= n})
    /\ now = 1
    /\ key = t[n]
    /\ result = IF n >= Len(t) THEN TEXT_COMPLETE
                ELSE IF t[n] = " " THEN WORD_COMPLETE ELSE CORRECT
    /\ calls = n

\* Fault variant of reset: the achieved milestones are not cleared.
ResetKeepsMilestones(new_text) ==
    /\ text' = IF new_text # NoNewText THEN new_text ELSE text
    /\ position' = 0
    /\ errors' = 0
    /\ correct' = 0
    /\ start_time' = None
    /\ last_keystroke_time' = None
    /\ combo' = 0
    /\ max_combo' = 0
    /\ keystrokes' = <<>>
    /\ error_positions' = {}
    /\ UNCHANGED <<achieved_combo_milestones, keystroke_events, combo_breaks,
                   milestone_events, now, key, result, calls>>

\* TypingEngine.reset(new_text): a new TypingState on the text, and the
\* achieved milestones cleared; the callbacks stay and nothing is called.
Reset(new_text) ==
    /\ text' = IF new_text # NoNewText THEN new_text ELSE text
    /\ position' = 0
    /\ errors' = 0
    /\ correct' = 0
    /\ start_time' = None
    /\ last_keystroke_time' = None
    /\ combo' = 0
    /\ max_combo' = 0
    /\ keystrokes' = <<>>
    /\ error_positions' = {}
    /\ achieved_combo_milestones' = {}
    /\ UNCHANGED <<keystroke_events, combo_breaks, milestone_events, now,
                   key, result, calls>>

\* An engine on a text of two characters, or one that has just reached the
\* first combo milestone on a long text.
InitReset ==
    /\ \/ EngineInit(<<"a", " ">>)
       \/ EngineAfterRun(LongText, 10)
    /\ AppIdle
    /\ ToolsIdle

NextReset ==
    \/ \E char \in {"a", BACKSPACE} :
          ProcessKey(char) /\ UNCHANGED <<appVars, toolVars>>
    \/ \E new_text \in ResetArgs : Reset(new_text) /\ UNCHANGED <<appVars, toolVars>>

SpecReset == InitReset /\ [][NextReset]_vars

\* The fields of a newly constructed TypingEngine(t): the TypingState
\* defaults and an empty set of achieved milestones.
FreshEngine(t) ==
    /\ text = t
    /\ position = 0
    /\ errors = 0 /\ correct = 0
    /\ combo = 0 /\ max_combo = 0
    /\ start_time = None /\ last_keystroke_time = None
    /\ keystrokes = <<>>
    /\ error_positions = {}
    /\ achieved_combo_milestones = {}

\* C28: a reset() call leaves the engine as TypingEngine(text) would be
\* on the text it had, and a reset(new_text) call as TypingEngine(new_text)
\* would be.
C28_ResetGivesFreshEngine ==
    [][\A new_text \in ResetArgs :
          Reset(new_text) =>
              \E t \in {IF new_text = NoNewText THEN text ELSE new_text} :
                  FreshEngine(t)']_vars

\* C28 witness: a fresh engine on the long text although a combo milestone
\* was announced before: the engine was reset after ten correct keys.
C28_Witness ==
    /\ FreshEngine(LongText)
    /\ milestone_events # <<>>
    /\ calls = 10


\* ======================================================================
\* The store of the Textual application: Database of
\* src/key4ce/data/database.py, with the sessions, user_stats and
\* achievements tables.  wpm and accuracy are whole numbers here; an
\* average is an exact fraction <<numerator, denominator>>; datetime.now()
\* is a clock that moves on at every reading.
\* ======================================================================

\* Number of save_session, unlock_achievement and
\* update_achievement_progress calls explored.
MaxStoreCalls == 3

\* unlocked_at IS NULL
NotUnlocked == 0

\* DEFAULT_ACHIEVEMENTS: id and target.
DEFAULT_ACHIEVEMENTS ==
    <<(<<"first_session", 1>>), <<"speed_50", 50>>, <<"speed_75", 75>>,
      <<"speed_100", 100>>, <<"accuracy_95", 95>>, <<"accuracy_99", 99>>,
      <<"combo_25", 25>>, <<"combo_50", 50>>, <<"combo_100", 100>>,
      <<"sessions_10", 10>>, <<"sessions_50", 50>>, <<"sessions_100", 100>>>>

AchievementIds ==
    {DEFAULT_ACHIEVEMENTS[i][1] : i \in 1..Len(DEFAULT_ACHIEVEMENTS)}

\* The sessions handed to save_session: two ids, so that a session can be
\* saved again under the id of a stored one.
StoreSessions ==
    {[id |-> id, wpm_final |-> sc[1], accuracy |-> sc[2],
      total_chars |-> sc[3], max_combo |-> sc[4], duration |-> sc[5]] :
        id \in {"s1", "s2"},
        sc \in {<<80, 96, 50, 20, 30>>, <<40, 99, 10, 30, 0>>,
                <<100, 90, 20, 0, 12>>}}

\* The ids handed to unlock_achievement and update_achievement_progress
\* from outside: achievements of the three kinds and an unknown id.
CalledIds == {"first_session", "speed_50", "sessions_10", "unknown"}

\* The progress values handed to update_achievement_progress.
ProgressValues == {0, 3}

\* Database.connect on a new file: _init_schema and _init_default_data.
StoreOpen ==
    [pc |-> "open",
     sessions |-> <<>>,
     stats |-> [total_sessions |-> 0, total_chars_typed |-> 0,
                total_time_seconds |-> 0, avg_wpm |-> <<0, 1>>,
                best_wpm |-> 0, avg_accuracy |-> <<0, 1>>,
                best_accuracy |-> 0, longest_combo |-> 0, updated_at |-> 0],
     achievements |->
        [id \in AchievementIds |->
            [target |-> DEFAULT_ACHIEVEMENTS[
                            CHOOSE i \in 1..Len(DEFAULT_ACHIEVEMENTS) :
                                DEFAULT_ACHIEVEMENTS[i][1] = id][2],
             progress |-> 0,
             unlocked_at |-> NotUnlocked]],
     now |-> 1,
     calls |-> 0,
     unlock_called |-> {},
     newly_unlocked |-> <<>>]

\* Fault variant of unlock_achievement: the UPDATE has no
\* `unlocked_at IS NULL` condition.
UnlockAgain(st, achievement_id) ==
    [st EXCEPT
       !.now = @ + 1,
       !.unlock_called = @ \cup {achievement_id},
       !.achievements =
           IF achievement_id \in DOMAIN @
           THEN [@ EXCEPT ![achievement_id] =
                    [target |-> @.target, progress |-> @.target,
                     unlocked_at |-> st.now]]
           ELSE @]

\* Database.unlock_achievement(achievement_id): the store after the call.
UnlockAchievement(st, achievement_id) ==
    [st EXCEPT
       !.now = @ + 1,
       !.unlock_called = @ \cup {achievement_id},
       !.achievements =
           IF /\ achievement_id \in DOMAIN @
              /\ @[achievement_id].unlocked_at = NotUnlocked
           THEN [@ EXCEPT ![achievement_id] =
                    [target |-> @.target, progress |-> @.target,
                     unlocked_at |-> st.now]]
           ELSE @]

\* Database.update_achievement_progress(achievement_id, progress)
UpdateAchievementProgress(st, achievement_id, progress) ==
    [st EXCEPT
       !.achievements =
           IF /\ achievement_id \in DOMAIN @
              /\ @[achievement_id].unlocked_at = NotUnlocked
           THEN [@ EXCEPT ![achievement_id] = [@ EXCEPT !.progress = progress]]
           ELSE @]

\* The unlock and progress calls _check_achievements_after_session makes,
\* in call order: <<id>> is unlock_achievement(id), <<id, n>> is
\* update_achievement_progress(id, n).
AchievementCalls(session, stats) ==
    LET when(cond, id) == IF cond THEN <<(<<id>>)>> ELSE <<>>
        count(id, target) ==
            <<(<<id, stats.total_sessions>>)>>
            \o when(stats.total_sessions >= target, id)
    IN when(stats.total_sessions = 1, "first_session")
       \o when(session.wpm_final >= 50, "speed_50")
       \o when(session.wpm_final >= 75, "speed_75")
       \o when(session.wpm_final >= 100, "speed_100")
       \o when(session.accuracy >= 95, "accuracy_95")
       \o when(session.accuracy >= 99, "accuracy_99")
       \o when(session.max_combo >= 25, "combo_25")
       \o when(session.max_combo >= 50, "combo_50")
       \o when(session.max_combo >= 100, "combo_100")
       \o count("sessions_10", 10)
       \o count("sessions_50", 50)
       \o count("sessions_100", 100)

\* Database._check_achievements_after_session: the store after the calls;
\* newly_unlocked is the list it returns (as ids), to which every
\* unlock_achievement call that returned a row added that row.
RECURSIVE CheckAchievementsAfterSession(_, _)
CheckAchievementsAfterSession(st, todo) ==
    IF todo = <<>> THEN st
    ELSE CheckAchievementsAfterSession(
             IF Len(Head(todo)) = 1
             THEN [UnlockAchievement(st, Head(todo)[1]) EXCEPT
                     !.newly_unlocked =
                         IF Head(todo)[1] \in DOMAIN st.achievements
                         THEN Append(@, Head(todo)[1]) ELSE @]
             ELSE UpdateAchievementProgress(st, Head(todo)[1], Head(todo)[2]),
             Tail(todo))

\* max(a, b)
Max(a, b) == IF a >= b THEN a ELSE b

\* Database._update_stats_after_session: the user_stats row after the
\* UPDATE.
UpdateStatsAfterSession(stats, session, t) ==
    LET total == stats.total_sessions + 1
    IN [total_sessions |-> total,
        total_chars_typed |-> stats.total_chars_typed + session.total_chars,
        total_time_seconds |-> stats.total_time_seconds + session.duration,
        avg_wpm |-> <<stats.avg_wpm[1] * stats.total_sessions
                         + session.wpm_final * stats.avg_wpm[2],
                      stats.avg_wpm[2] * total>>,
        best_wpm |-> Max(stats.best_wpm, session.wpm_final),
        avg_accuracy |-> <<stats.avg_accuracy[1] * stats.total_sessions
                              + session.accuracy * stats.avg_accuracy[2],
                           stats.avg_accuracy[2] * total>>,
        best_accuracy |-> Max(stats.best_accuracy, session.accuracy),
        longest_combo |-> Max(stats.longest_combo, session.max_combo),
        updated_at |-> t]

\* INSERT OR REPLACE INTO sessions: a stored row with the same id is
\* replaced.
InsertOrReplace(rows, session) ==
    SelectSeq(rows, LAMBDA r : r.id # session.id) \o <<session>>

\* Database.save_session(session)
StoreSaveSession(session) ==
    /\ store.pc = "open"
    /\ store.calls < MaxStoreCalls
    /\ LET stats == UpdateStatsAfterSession(store.stats, session, store.now)
           inserted == [store EXCEPT
                       !.sessions = InsertOrReplace(@, session),
                       !.stats = stats,
                       !.now = @ + 1,
                       !.calls = @ + 1,
                       !.newly_unlocked = <<>>]
       IN store' = CheckAchievementsAfterSession(
                       inserted, AchievementCalls(session, stats))

\* A call of unlock_achievement from outside.
CallUnlockAchievement(achievement_id) ==
    /\ store.pc = "open"
    /\ store.calls < MaxStoreCalls
    /\ store' = [UnlockAchievement(store, achievement_id) EXCEPT
                   !.calls = @ + 1]

\* A call of update_achievement_progress from outside.
CallUpdateAchievementProgress(achievement_id, progress) ==
    /\ store.pc = "open"
    /\ store.calls < MaxStoreCalls
    /\ store' = [UpdateAchievementProgress(store, achievement_id, progress)
                   EXCEPT !.calls = @ + 1]

InitStore ==
    /\ EngineInit(AppText)
    /\ AppIdle
    /\ TimelineIdle /\ AnalyzerIdle /\ FocusIdle /\ ContentIdle
    /\ db = [pc |-> "idle"]
    /\ loader = [pc |-> "idle"]
    /\ store = StoreOpen

NextStore ==
    \/ \E session \in StoreSessions :
          /\ StoreSaveSession(session)
          /\ UNCHANGED <<vars, appVars, timeline, analyzer, focus, content, db, loader>>
    \/ \E achievement_id \in CalledIds :
          /\ CallUnlockAchievement(achievement_id)
          /\ UNCHANGED <<vars, appVars, timeline, analyzer, focus, content, db, loader>>
    \/ \E achievement_id \in CalledIds, progress \in ProgressValues :
          /\ CallUpdateAchievementProgress(achievement_id, progress)
          /\ UNCHANGED <<vars, appVars, timeline, analyzer, focus, content, db, loader>>

SpecStore == InitStore /\ [][NextStore]_store

\* ----------------------------------------------- claims on this store
RECURSIVE SumChars(_)
SumChars(rows) ==
    IF rows = <<>> THEN 0 ELSE Head(rows).total_chars + SumChars(Tail(rows))

\* C29: total_sessions is the number of rows of the sessions table,
\* best_wpm the highest wpm_final among them and total_chars_typed the sum
\* of their total_chars.
C29_StatsAggregateStoredSessions ==
    /\ store.stats.total_sessions = Len(store.sessions)
    /\ store.stats.total_chars_typed = SumChars(store.sessions)
    /\ store.sessions # <<>> =>
          /\ \E i \in 1..Len(store.sessions) :
                store.sessions[i].wpm_final = store.stats.best_wpm
          /\ \A i \in 1..Len(store.sessions) :
                store.sessions[i].wpm_final <= store.stats.best_wpm

\* C30: an existing achievement that unlock_achievement was called for is
\* unlocked with progress at its target, and no later step changes its
\* unlocked_at or takes its progress below the target.
C30_UnlockedStaysUnlocked ==
    /\ [](\A id \in store.unlock_called \cap AchievementIds :
             /\ store.achievements[id].unlocked_at # NotUnlocked
             /\ store.achievements[id].progress
                  >= store.achievements[id].target)
    /\ [][\A id \in store.unlock_called \cap AchievementIds :
             store.achievements'[id].unlocked_at
                = store.achievements[id].unlocked_at]_store

\* C30 witness: sessions_10 was unlocked by a call from outside, then a
\* progress update and a session save tried to set its progress; it is
\* still unlocked at the time of the first call with progress 10.
C30_Witness ==
    /\ store.calls = 3
    /\ "sessions_10" \in store.unlock_called
    /\ store.achievements["sessions_10"].unlocked_at = 1
    /\ store.achievements["sessions_10"].progress = 10
    /\ store.stats.total_sessions = 1
    /\ store.now > 3


\* The step is a save_session call.
SaveStep == store'.stats.total_sessions # store.stats.total_sessions

\* C33: every achievement in the list _check_achievements_after_session
\* returns was locked before the call and is unlocked after it.
C33_ReportedAreNewlyUnlocked ==
    [][SaveStep =>
          \A i \in 1..Len(store'.newly_unlocked) :
             LET id == store'.newly_unlocked[i]
             IN /\ store.achievements[id].unlocked_at = NotUnlocked
                /\ store'.achievements[id].unlocked_at # NotUnlocked]_store

\* ======================================================================
\* The end of a session in the Rich application: App._finish_session of
\* src/key4ce/ui/app.py on the timeline of a typing screen's engine, the
\* store of src/key4ce/data/db.py and the results screen it pushes.
\* Timestamps are in half milliseconds, wpm values in thousandths.
\* ======================================================================

\* Clock units per millisecond.
UnitsPerMs == 2

\* The keys a typing screen's engine records before it is complete.
MaxFinishKeys == 4

\* The target text of the typing screen.
FinishText == <<"a", "a", "a">>

\* Clock units that pass before a key is recorded: half a millisecond, or
\* one and a half.
FinishTicks == {1, 3}

\* What analyse(engine.timeline) returns in the explored runs, and the
\* source of the typing screen.
FinishAnalyses ==
    {[source |-> src, wpm |-> w, accuracy |-> 100000, duration_sec |-> 12375,
      chars_typed |-> Len(FinishText), error_log |-> <<>>] :
        src \in {"words", "quotes"}, w \in {40125, 40380, 39000}}

\* The store when the session ends: new, or holding one earlier session.
FinishStores ==
    {DbOpen}
    \cup {[DbOpen EXCEPT !.rows = <<NewRow(1, a)>>, !.args = <<a>>] :
            a \in {d \in DbSessions : d.errors = <<>>}}

\* int(x) for x >= 0 or x < 0: truncation towards zero.
Truncate(n, d) == IF n >= 0 THEN n \div d ELSE -((-n) \div d)

\* Fault variant of the timings loop: a gap for every keystroke, correct
\* or not.
RECURSIVE TimingsOfAllKeys(_, _, _)
TimingsOfAllKeys(ks, prev_ts, timings) ==
    IF ks = <<>> THEN timings
    ELSE TimingsOfAllKeys(
             Tail(ks), <<Head(ks).timestamp>>,
             IF prev_ts # <<>>
             THEN Append(timings,
                         Max(0, Truncate(Head(ks).timestamp - prev_ts[1],
                                         UnitsPerMs)))
             ELSE timings)

\* The loop of _finish_session over engine.timeline.keystrokes; prev_ts is
\* <<>> for None.
RECURSIVE Timings(_, _, _)
Timings(ks, prev_ts, timings) ==
    IF ks = <<>> THEN timings
    ELSE IF Head(ks).is_correct
    THEN Timings(Tail(ks), <<Head(ks).timestamp>>,
                 IF prev_ts # <<>>
                 THEN Append(timings,
                             Max(0, Truncate(Head(ks).timestamp - prev_ts[1],
                                             UnitsPerMs)))
                 ELSE timings)
    ELSE Timings(Tail(ks), prev_ts, timings)

\* Database.get_best_wpm_for_source: MAX(wpm) of the rows of the source,
\* 0.0 when there is none.
GetBestWpmForSource(rows, source) ==
    LET wpms == {rows[i].wpm : i \in {j \in 1..Len(rows) :
                                         rows[j].source = source}}
    IN IF wpms = {} THEN 0
       ELSE CHOOSE w \in wpms : \A v \in wpms : v <= w

\* ResultsScreen.render: pb_delta > 0, the test for the new-PB message.
NewPbShown(screen) == screen.wpm - screen.pb_wpm > 0

\* handle_char of the typing screen's engine on a key that is right or
\* wrong, d clock units after the last key: the key is recorded and the
\* cursor moves on a right key only.
FinishRecord(ok, d) ==
    /\ stack = <<>>
    /\ CountCorrect(timeline.keystrokes) < Len(FinishText)
    /\ Len(timeline.keystrokes) < MaxFinishKeys
    /\ timeline' =
         [timeline EXCEPT
            !.now = @ + d,
            !.keystrokes = Append(@, [char |-> IF ok THEN "a" ELSE "b",
                                      expected |-> "a",
                                      timestamp |-> timeline.now + d,
                                      is_correct |-> ok,
                                      position |-> CountCorrect(@)])]
    /\ UNCHANGED <<db, stack>>

\* App._finish_session(engine, source) once the engine is complete.  The
\* results screen keeps, besides its own fields, the best wpm of the
\* source before this session was saved (prev_best, -1 for none).
FinishSession(a) ==
    /\ stack = <<>>
    /\ CountCorrect(timeline.keystrokes) = Len(FinishText)
    /\ SaveSession([source |-> a.source, wpm |-> a.wpm,
                    accuracy |-> a.accuracy, duration |-> a.duration_sec,
                    chars_typed |-> a.chars_typed, errors |-> a.error_log,
                    timings |-> Timings(timeline.keystrokes, <<>>, <<>>)])
    /\ LET pb == GetBestWpmForSource(db'.rows, a.source)
           actual_pb == Max(pb, a.wpm)
       IN stack' = Append(stack,
                          [kind |-> "results", source |-> a.source,
                           wpm |-> a.wpm, pb_wpm |-> actual_pb,
                           prev_best |->
                               IF \E i \in 1..Len(db.rows) :
                                     db.rows[i].source = a.source
                               THEN GetBestWpmForSource(db.rows, a.source)
                               ELSE -1])
    /\ UNCHANGED timeline

InitFinish ==
    /\ EngineInit(AppText)
    /\ AppIdle
    /\ TimelineIdle /\ AnalyzerIdle /\ FocusIdle /\ ContentIdle
    /\ loader = [pc |-> "idle"]
    /\ store = [pc |-> "idle"]
    /\ db \in FinishStores

NextFinish ==
    \/ \E ok \in BOOLEAN, d \in FinishTicks :
          /\ FinishRecord(ok, d)
          /\ UNCHANGED <<vars, key_queue, running, last_category, pc_main,
                         pc_input, input_key, conn, saved, closed_ops,
                         produced, dispatched, nread, theme, nscreens,
                         analyzer, focus, content, loader, store>>
    \/ \E a \in FinishAnalyses :
          /\ FinishSession(a)
          /\ UNCHANGED <<vars, key_queue, running, last_category, pc_main,
                         pc_input, input_key, conn, saved, closed_ops,
                         produced, dispatched, nread, theme, nscreens,
                         analyzer, focus, content, loader, store>>

SpecFinish == InitFinish /\ [][NextFinish]_<<timeline, db, stack>>

\* ------------------------------------------ claims on the end of a session
\* The correct keystrokes of the timeline, in order.
CorrectKeys == SelectSeq(timeline.keystrokes, LAMBDA k : k.is_correct)

\* The timings list of the row the session was stored in, as read back.
PersistedTimings == RowToRecord(Last(db.rows)).timings

\* C32: the persisted timings list holds non-negative integers, one less
\* than there are correct keystrokes, the i-th being the whole
\* milliseconds between the i-th correct keystroke and the next one,
\* whatever incorrect keystrokes lie between them.
C32_TimingsAreCorrectKeyGaps ==
    stack # <<>> =>
        /\ Len(PersistedTimings) = Len(CorrectKeys) - 1
        /\ \A i \in 1..Len(PersistedTimings) :
              /\ PersistedTimings[i] \in Nat
              /\ PersistedTimings[i] * UnitsPerMs
                    <= CorrectKeys[i + 1].timestamp - CorrectKeys[i].timestamp
              /\ CorrectKeys[i + 1].timestamp - CorrectKeys[i].timestamp
                    < (PersistedTimings[i] + 1) * UnitsPerMs

\* C32 witness: a session with a wrong key between the first and the
\* second correct key, 3 ms apart, and half a millisecond between the
\* second and the third, was stored with timings [3, 0].
C32_Witness ==
    /\ stack # <<>>
    /\ Len(timeline.keystrokes) = 4
    /\ ~timeline.keystrokes[2].is_correct
    /\ PersistedTimings = <<3, 0>>

\* C37: when the session's wpm is above the best wpm stored before for its
\* source, the results screen gets a personal best below the session's wpm
\* and shows the new-PB message; otherwise it gets the previous best.
C37_NewPersonalBestShown ==
    \A i \in 1..Len(stack) :
        IF stack[i].wpm > stack[i].prev_best
        THEN stack[i].pb_wpm < stack[i].wpm /\ NewPbShown(stack[i])
        ELSE stack[i].pb_wpm = stack[i].prev_best

====
